---- MODULE Spec2Model ----
(***************************************************************************)
(* Model of meshi's generation-tagged handle pool                          *)
(* (meshi-cpp/src/api/meshi/bits/util/handle.hpp): Handle<T>, ItemList<T>  *)
(* and Pool<T>.  The program variables are the Pool's three members; the   *)
(* history variables (issued, live, stale, hist, ret) record what the      *)
(* caller has been handed, so that properties about "the handle returned   *)
(* by an earlier insert" can be stated.  A second group of variables is a  *)
(* stand-alone ItemList (owned or imported), which the Pool never builds.  *)
(* A third group is the process that loads the engine module                 *)
(* (bits/util/loader.hpp, backend.hpp, capi/meshi-rs/meshi.h): the platform's *)
(* loader, the function-local static module handle of resolve_api, and the    *)
(* EngineBackend objects with the calls they make through the plugin's table. *)
(***************************************************************************)
EXTENDS Integers, Sequences, FiniteSets, TLC

\* ---------------------------------------------------------------- bounds
\* The number of mutating calls (insert, release, clear, expand) made on the Pool.
MaxCalls == 5

\* The number of mutating calls made on a Pool of 65536 slots or more.
MaxLargeCalls == 2

\* The number of calls made in a run that grows a store: on the stand-alone
\* ItemList, or on the Pool when expand is called directly.
MaxStoreCalls == 3

\* The number of calls made on the loader and on EngineBackend objects.
MaxBackendCalls == 4

\* The number of callbacks registered with the EventHandler after its
\* construction, and of action callbacks registered with the ActionHandler.
MaxCallbacks == 2
MaxActionCallbacks == 2

\* The number of entries in all m_children lists together.
MaxAttach == 2

\* Pointers of the loader: null, the handle the platform gives for the module,
\* the address of the module's entry function and of its dispatch table.
nullptr == "nullptr"
ModuleHandle == "handle of libmeshi-rs.so"
EntryFn == "&meshi_plugin_get_api"
TablePtr == "&MeshiPluginApi"

\* A null MeshiEngine*; the engines make_engine returns are 1, 2, ...
NoEngine == 0

\* Sizes the Pool is constructed with, and the values inserted (T = int).
InitSizes == {2, 3}
Values == {1, 2}

\* ------------------------------------------------------ program constants
UINT16_MAX == 65535
ExpandBatch == 1024
DefaultItem == 0

\* static_cast<uint16_t>(x)
ToU16(x) == x % (UINT16_MAX + 1)

\* ----------------------------------------------------------------- Handle
Handle(slot, gen) == [slot |-> slot, generation |-> gen]

\* A default-constructed Handle.
NullHandle == Handle(UINT16_MAX, UINT16_MAX)

valid(h) == h.slot # UINT16_MAX /\ h.generation # UINT16_MAX

\* --------------------------------------------------------------- ItemList
\* ItemList(len): an owned buffer of len value-initialised slots.
ItemList(len) ==
  [items |-> [i \in 0..(len - 1) |-> DefaultItem], capacity |-> len, imported |-> FALSE]

\* ItemList(ptr, len): the list takes over a foreign buffer; ptr is the
\* buffer's contents, indexed from 0.
ItemList_from(ptr, len) ==
  [items |-> [i \in 0..(len - 1) |-> ptr[i]], capacity |-> len, imported |-> TRUE]

size(l) == l.capacity

\* ItemList::expand that sizes the new buffer by amt alone.
ItemList_expand_fresh(list, amt) ==
  IF list.imported THEN list ELSE ItemList(amt)

\* ItemList::expand that does not look at imported.
ItemList_expand_always(list, amt) ==
  [items |-> [i \in 0..(list.capacity + amt - 1) |->
                IF i < list.capacity THEN list.items[i] ELSE DefaultItem],
   capacity |-> list.capacity + amt,
   imported |-> list.imported]

ItemList_expand_nocopy(list, amt) ==
  IF ~list.imported
    THEN [items |-> [i \in 0..(list.capacity + amt - 1) |-> DefaultItem],
          capacity |-> list.capacity + amt,
          imported |-> list.imported]
    ELSE list

ItemList_expand(list, amt) ==
  IF ~list.imported
    THEN LET new_capacity == list.capacity + amt
         IN [items |-> [i \in 0..(new_capacity - 1) |->
                          IF i < list.capacity THEN list.items[i] ELSE DefaultItem],
             capacity |-> new_capacity,
             imported |-> list.imported]
    ELSE list

\* ------------------------------------------------------------------- Pool
VARIABLES
  items,       \* Pool::items, an ItemList
  empty,       \* Pool::empty, the stack of free slot indices (back = last)
  generation,  \* Pool::generation, indexed from 0
  fault,       \* TRUE once an insert has written outside the buffer
  issued,      \* history: issued[i] is the i-th insert's slot, handle and item
  live,        \* history: the inserts whose handle has not been released or cleared
  stale,       \* history: the inserts whose slot was released after them
  hist,        \* history: the mutating calls made so far, in order
  ret,         \* the last call and what it returned
  list,        \* a stand-alone ItemList, owned or imported
  list_buf,    \* which buffer list.items points to: 1 at construction, +1 per allocation
  list_hist,   \* the calls made on list
  env,         \* what is deployed: is the library there, does it export the entry
               \* symbol, the abi_version of its table, the one the caller was built for
  dl,          \* the static dl of resolve_api: initialised yet, and its value
  refs,        \* the platform's reference count of the module (loaded iff > 0)
  held,        \* module handles the caller got from loader_function and still holds
  dlopens,     \* history: the calls of the platform loader, in order
  backends,    \* the EngineBackend objects constructed, in order
  calls,       \* history: the calls made through function pointers of the module
  proc,        \* "running", or how the process ended
  lret,        \* the last direct call of a loader.hpp function and its result
  steps,       \* the number of loader and EngineBackend calls made
  installed,   \* which of backends is in the Engine that engine() returns (0: none)
  gets,        \* per thread: the get_ref call it is in, and where in it
  callbacks_,        \* EventHandler::callbacks_, in registration order
  pressed_keys_,     \* EventHandler::pressed_keys_ ("absent": no entry)
  pressed_buttons_,  \* EventHandler::pressed_buttons_
  registries,        \* the EventRegister objects and their two lists of callbacks
  next_callback,     \* identity of the next EventCallback object to be registered
  seen,              \* the callbacks the last call on the handlers invoked, in
                     \* order, each with the event and the pressed tables it
                     \* could observe
  action_filters_,   \* ActionHandler::action_filters_ ("unset": no entry)
  action_callbacks_, \* ActionHandler::action_callbacks_, in registration order
  action_registries, \* the ActionRegister objects and their two lists of callbacks
  next_action,       \* identity of the next ActionCallback object to be registered
  aseen,             \* the action callbacks the last call on the handlers invoked
  ev_last,           \* the last call made on the EventHandler or the ActionHandler
  m_parent,          \* Component::m_parent of every component (Null: none)
  m_children,        \* Component::m_children of every component, in order
  m_active,          \* Object::m_active of every component
  hooks,             \* the hooks and updates the last call ran, in order
  comp_last,         \* the last call made on a component and what it returned
  comp_proc          \* "running", or how a call on a component ended the run

vars == <<items, empty, generation, fault, issued, live, stale, hist, ret,
          list, list_buf, list_hist,
          env, dl, refs, held, dlopens, backends, calls, proc, lret, steps,
          installed, gets,
          callbacks_, pressed_keys_, pressed_buttons_, registries, next_callback,
          seen, action_filters_, action_callbacks_, action_registries, next_action,
          aseen, ev_last,
          m_parent, m_children, m_active, hooks, comp_last, comp_proc>>

backend_vars ==
  <<env, dl, refs, held, dlopens, backends, calls, proc, lret, steps, installed>>

pool_vars == <<items, empty, generation, fault, issued, live, stale, hist, ret>>

store_vars == <<list, list_buf, list_hist>>

pool == <<items, empty, generation>>

\* What a call on the Pool, on the stand-alone list, on the loader or an
\* EngineBackend leaves alone: the other objects of the process.
event_state ==
  <<callbacks_, pressed_keys_, pressed_buttons_, registries, next_callback>>

action_state ==
  <<action_filters_, action_callbacks_, action_registries, next_action>>

event_vars == <<event_state, action_state, seen, aseen, ev_last>>

comp_vars == <<m_parent, m_children, m_active, hooks, comp_last, comp_proc>>

beside_pool == <<store_vars, backend_vars, gets, event_vars, comp_vars>>
beside_store == <<pool_vars, backend_vars, gets, event_vars, comp_vars>>
beside_backend == <<pool_vars, store_vars, gets, event_vars, comp_vars>>
beside_gets == <<pool_vars, store_vars, backend_vars, event_vars, comp_vars>>
beside_events == <<pool_vars, store_vars, backend_vars, gets, comp_vars>>
beside_components == <<pool_vars, store_vars, backend_vars, gets, event_vars>>

Range(s) == {s[i] : i \in DOMAIN s}

Iota(lo, hi) == [i \in 1..(hi - lo) |-> lo + i - 1]

Nullopt == [some |-> FALSE, slot |-> 0]
Some(slot) == [some |-> TRUE, slot |-> slot]

Call(op, item, h, res, oob) == [op |-> op, item |-> item, h |-> h, res |-> res, oob |-> oob]

Mut(op, item, h) == [op |-> op, item |-> item, h |-> h]

Count(op) == Cardinality({i \in DOMAIN hist : hist[i].op = op})

\* Pool(initial_size)
Pool(initial_size) ==
  /\ items = ItemList(initial_size)
  /\ generation = [i \in 0..(initial_size - 1) |-> 0]
  /\ empty = Iota(0, initial_size)

\* No stand-alone ItemList is in use: an empty owned list that is never called.
StoreAtRest ==
  /\ list = ItemList(0)
  /\ list_buf = 1
  /\ list_hist = <<>>

\* The history of a Pool that has just been constructed.
Fresh ==
  /\ fault = FALSE
  /\ issued = <<>>
  /\ live = {}
  /\ stale = {}
  /\ hist = <<>>
  /\ ret = Call("Pool", DefaultItem, NullHandle, Nullopt, FALSE)

\* A process that has not touched the loader: resolve_api's static is not
\* initialised, nothing is loaded, no EngineBackend exists.
NotLoaded ==
  /\ dl = [init |-> FALSE, handle |-> nullptr]
  /\ refs = 0
  /\ held = 0
  /\ dlopens = <<>>
  /\ backends = <<>>
  /\ calls = <<>>
  /\ proc = "running"
  /\ lret = [fn |-> "none", arg |-> nullptr, res |-> nullptr]
  /\ steps = 0
  /\ installed = 0

\* The threads that call get_ref, and a thread that is in no call.
Threads == {1, 2}

Idle == [pc |-> "idle", handle |-> NullHandle, g |-> 0, res |-> Nullopt]

\* The keys and mouse buttons that events are about, the EventRegister and
\* ActionRegister objects, the action types.
Keys == {"W", "S"}
Buttons == {"Left", "Right"}
Registries == {1, 2}
ActionTypes == {"jump", "fire"}

NoEvent == [type |-> "Unknown", source |-> "Unknown", code |-> "none"]

\* A registry that make_registry has not yet returned.
Unmade ==
  [state |-> "unmade", registered_callbacks_ |-> <<>>,
   registered_function_callbacks_ |-> <<>>]

\* The callback the ActionHandler's constructor registers with the
\* EventHandler: filter "pass all", callback ActionHandler::process_event.
ActionSubscription == 0

FilteredCallback(filter, callback) == [filter |-> filter, callback |-> callback]

\* The EventHandler and the ActionHandler as Engine's constructor leaves them:
\* no key seen, one callback (the ActionHandler's), no action registered.
EventsAtRest ==
  /\ callbacks_ = <<FilteredCallback("any", ActionSubscription)>>
  /\ pressed_keys_ = [k \in Keys |-> "absent"]
  /\ pressed_buttons_ = [b \in Buttons |-> "absent"]
  /\ registries = [r \in Registries |-> Unmade]
  /\ next_callback = 1
  /\ seen = <<>>
  /\ action_filters_ = [a \in ActionTypes |-> "unset"]
  /\ action_callbacks_ = <<>>
  /\ action_registries = [r \in Registries |-> Unmade]
  /\ next_action = 1
  /\ aseen = <<>>
  /\ ev_last = [op |-> "none", callback |-> 0, event |-> NoEvent]

\* The components of the scene, and a null Component*. Component 1 is the root
\* component of an Actor; the others are made by the caller.
Null == 0
Components == {1, 2, 3}

\* Component::m_actor: a null Actor*, or the Actor whose constructor made the
\* component its root.
NoActor == 0
m_actor(c) == IF c = 1 THEN 1 ELSE NoActor

CompCall(op, c, res) == [op |-> op, c |-> c, res |-> res]

\* The components as their constructors leave them: no parent, no children,
\* inactive.
ComponentsAtRest ==
  /\ m_parent = [c \in Components |-> Null]
  /\ m_children = [c \in Components |-> <<>>]
  /\ m_active = [c \in Components |-> FALSE]
  /\ hooks = <<>>
  /\ comp_last = CompCall("none", Null, Null)
  /\ comp_proc = "running"

\* No EngineBackend is in use: a sound deployment that is never loaded. No
\* thread is in a get_ref call, no event has been delivered.
BackendAtRest ==
  /\ env = [lib |-> TRUE, sym |-> TRUE, table |-> TablePtr, abi |-> 1, expected |-> 1]
  /\ NotLoaded
  /\ gets = [t \in Threads |-> Idle]
  /\ EventsAtRest
  /\ ComponentsAtRest

Init ==
  /\ \E initial_size \in InitSizes : Pool(initial_size)
  /\ Fresh
  /\ StoreAtRest
  /\ BackendAtRest

\* Pool::expand that resizes the generation array with 1 for the new slots.
expand_gen1(p, amount) ==
  LET old_size == size(p.items)
      grown == ItemList_expand(p.items, amount)
  IN [items |-> grown,
      generation |-> [i \in 0..(size(grown) - 1) |->
                        IF i \in DOMAIN p.generation THEN p.generation[i] ELSE 1],
      empty |-> p.empty \o Iota(old_size, size(grown))]

\* Pool::expand(amount), as the new values of the three members.
expand(p, amount) ==
  LET old_size == size(p.items)
      grown == ItemList_expand(p.items, amount)
  IN [items |-> grown,
      generation |-> [i \in 0..(size(grown) - 1) |->
                        IF i \in DOMAIN p.generation THEN p.generation[i] ELSE 0],
      empty |-> p.empty \o Iota(old_size, size(grown))]

\* Pool::insert that increments the generation of the slot it hands out.
insert_bump(item) ==
  /\ ~fault
  /\ Len(hist) < MaxCalls
  /\ LET cur == [items |-> items, generation |-> generation, empty |-> empty]
         p == IF empty = <<>> THEN expand(cur, ExpandBatch) ELSE cur
         empty_slot == p.empty[Len(p.empty)]
         bumped == [p.generation EXCEPT ![empty_slot] = ToU16(@ + 1)]
         h == Handle(ToU16(empty_slot), bumped[empty_slot])
     IN /\ empty_slot < size(p.items)
        /\ empty' = SubSeq(p.empty, 1, Len(p.empty) - 1)
        /\ items' = [p.items EXCEPT !.items[empty_slot] = item]
        /\ generation' = bumped
        /\ fault' = FALSE
        /\ issued' = Append(issued, [slot |-> empty_slot, h |-> h, item |-> item])
        /\ live' = live \cup {Len(issued) + 1}
        /\ stale' = stale
        /\ hist' = Append(hist, Mut("insert", item, h))
        /\ ret' = Call("insert", item, h, Some(empty_slot), FALSE)

\* Pool::insert(item)
insert(item) ==
  /\ ~fault
  /\ Len(hist) < MaxCalls
  /\ LET cur == [items |-> items, generation |-> generation, empty |-> empty]
         p == IF empty = <<>> THEN expand(cur, ExpandBatch) ELSE cur
         empty_slot == p.empty[Len(p.empty)]
         h == Handle(ToU16(empty_slot), p.generation[empty_slot])
     IN IF empty_slot < size(p.items)
          THEN /\ empty' = SubSeq(p.empty, 1, Len(p.empty) - 1)
               /\ items' = [p.items EXCEPT !.items[empty_slot] = item]
               /\ generation' = p.generation
               /\ fault' = FALSE
               /\ issued' = Append(issued, [slot |-> empty_slot, h |-> h, item |-> item])
               /\ live' = live \cup {Len(issued) + 1}
               /\ stale' = stale
               /\ hist' = Append(hist, Mut("insert", item, h))
               /\ ret' = Call("insert", item, h, Some(empty_slot), FALSE)
          ELSE \* items[empty_slot] is outside the buffer: the write is undefined
               /\ fault' = TRUE
               /\ empty' = SubSeq(p.empty, 1, Len(p.empty) - 1)
               /\ ret' = Call("insert", item, NullHandle, Nullopt, TRUE)
               /\ UNCHANGED <<items, generation, issued, live, stale, hist>>

\* Pool::get_ref without the test of handle.valid().
get_ref_outcomes_novalid(gen, handle) ==
  IF handle.slot \in DOMAIN gen
    THEN IF gen[handle.slot] = handle.generation THEN {Some(handle.slot)} ELSE {Nullopt}
    ELSE {Nullopt, Some(handle.slot)}

\* What Pool::get_ref(handle) can return: the slot it points into, or nullopt.
\* generation[handle.slot] is read unchecked; outside the vector the read is
\* undefined and the comparison can go either way.
get_ref_outcomes(gen, handle) ==
  IF ~valid(handle) THEN {Nullopt}
  ELSE IF handle.slot \in DOMAIN gen
    THEN IF gen[handle.slot] = handle.generation THEN {Some(handle.slot)} ELSE {Nullopt}
    ELSE {Nullopt, Some(handle.slot)}

get_ref_oob(gen, handle) == valid(handle) /\ handle.slot \notin DOMAIN gen

\* Pool::get_ref(handle)
get_ref(handle) ==
  /\ ~fault
  /\ \E r \in get_ref_outcomes(generation, handle) :
       ret' = Call("get_ref", DefaultItem, handle, r, get_ref_oob(generation, handle))
  /\ UNCHANGED <<items, empty, generation, fault, issued, live, stale, hist>>

\* Pool::release that puts the slot at the bottom of the free stack.
release_front(handle) ==
  /\ empty' = <<handle.slot>> \o empty
  /\ UNCHANGED <<items, generation>>

\* Pool::release(handle): the Pool's members after the call.
release(handle) ==
  /\ empty' = Append(empty, handle.slot)
  /\ UNCHANGED <<items, generation>>

\* release called with the handle the i-th insert returned.
Release(i) ==
  /\ ~fault
  /\ Len(hist) < MaxCalls
  /\ LET handle == issued[i].h
     IN /\ release(handle)
        /\ live' = live \ {i}
        /\ stale' = stale \cup {j \in DOMAIN issued : issued[j].slot = handle.slot}
        /\ hist' = Append(hist, Mut("release", DefaultItem, handle))
        /\ ret' = Call("release", DefaultItem, handle, Nullopt, FALSE)
  /\ UNCHANGED <<fault, issued>>

clear_keep ==
  /\ ~fault
  /\ Len(hist) < MaxCalls
  /\ empty' = empty \o Iota(0, size(items))
  /\ generation' = [i \in DOMAIN generation |-> 0]
  /\ live' = {}
  /\ stale' = {}
  /\ hist' = Append(hist, Mut("clear", DefaultItem, NullHandle))
  /\ ret' = Call("clear", DefaultItem, NullHandle, Nullopt, FALSE)
  /\ UNCHANGED <<items, fault, issued>>

\* Pool::clear whose loop starts at index 1.
clear_skip0 ==
  /\ ~fault
  /\ Len(hist) < MaxCalls
  /\ empty' = Iota(1, size(items))
  /\ generation' = [i \in DOMAIN generation |-> 0]
  /\ live' = {}
  /\ stale' = {}
  /\ hist' = Append(hist, Mut("clear", DefaultItem, NullHandle))
  /\ ret' = Call("clear", DefaultItem, NullHandle, Nullopt, FALSE)
  /\ UNCHANGED <<items, fault, issued>>

\* Pool::clear()
clear ==
  /\ ~fault
  /\ Len(hist) < MaxCalls
  /\ empty' = Iota(0, size(items))
  /\ generation' = [i \in DOMAIN generation |-> 0]
  /\ live' = {}
  /\ stale' = {}
  /\ hist' = Append(hist, Mut("clear", DefaultItem, NullHandle))
  /\ ret' = Call("clear", DefaultItem, NullHandle, Nullopt, FALSE)
  /\ UNCHANGED <<items, fault, issued>>

\* The handles a caller passes to get_ref: every handle an insert returned,
\* and handles made up by the caller (never issued, out of range, the sentinel).
ProbeHandles ==
  {Handle(0, 1), Handle(2, 0), NullHandle}

IssuedHandles == {issued[i].h : i \in DOMAIN issued}

GetHandles == IssuedHandles \cup ProbeHandles

Next ==
  \/ \E item \in Values : insert(item) /\ UNCHANGED beside_pool
  \/ \E i \in DOMAIN issued : Release(i) /\ UNCHANGED beside_pool
  \/ clear /\ UNCHANGED beside_pool
  \/ \E handle \in GetHandles : get_ref(handle) /\ UNCHANGED beside_pool

Spec == Init /\ [][Next]_vars

\* The same Pool used as its contract requires: release is called only with the
\* handle of an object that is still live (at most once per insert, and never
\* with a handle from before a clear).
NextProper ==
  \/ \E item \in Values : insert(item) /\ UNCHANGED beside_pool
  \/ \E i \in live : Release(i) /\ UNCHANGED beside_pool
  \/ clear /\ UNCHANGED beside_pool
  \/ \E handle \in GetHandles : get_ref(handle) /\ UNCHANGED beside_pool

SpecProper == Init /\ [][NextProper]_vars

\* The Pool of Spec with a third item value, as the scenario
\* insert(1), insert(2), release, insert(3) needs.
ScenarioValues == Values \cup {3}

NextScenario ==
  \/ \E item \in ScenarioValues : insert(item) /\ UNCHANGED beside_pool
  \/ \E i \in DOMAIN issued : Release(i) /\ UNCHANGED beside_pool
  \/ clear /\ UNCHANGED beside_pool
  \/ \E handle \in GetHandles : get_ref(handle) /\ UNCHANGED beside_pool

SpecScenario == Init /\ [][NextScenario]_vars

\* ------------------------------------------------- Pool::expand, called directly
ExpandAmounts == {0, 1, ExpandBatch}

\* Pool::expand(amount) called by the Pool's user.
Expand(amount) ==
  /\ ~fault
  /\ Len(hist) < MaxCalls
  /\ LET p == expand([items |-> items, generation |-> generation, empty |-> empty], amount)
     IN /\ items' = p.items
        /\ generation' = p.generation
        /\ empty' = p.empty
  /\ hist' = Append(hist, Mut("expand", amount, NullHandle))
  /\ ret' = Call("expand", amount, NullHandle, Nullopt, FALSE)
  /\ UNCHANGED <<fault, issued, live, stale>>

\* ------------------------------------------------- a stand-alone ItemList
ListSizes == {0, 1, 2}
ListAmounts == {0, 1, 2}

\* The contents of the foreign buffers a list is built over.
ForeignBuffers ==
  UNION {[0..(len - 1) -> Values \cup {DefaultItem}] : len \in ListSizes}

InitialLists ==
  {ItemList(len) : len \in ListSizes}
    \cup {ItemList_from(ptr, Cardinality(DOMAIN ptr)) : ptr \in ForeignBuffers}

\* ItemList::expand(amt) on the stand-alone list.
list_expand(amt) ==
  /\ Len(list_hist) < MaxStoreCalls
  /\ list' = ItemList_expand(list, amt)
  /\ list_buf' = IF list.imported THEN list_buf ELSE list_buf + 1
  /\ list_hist' = Append(list_hist, [op |-> "expand", arg |-> amt])

\* list[index] = item, for an index the caller has validated.
list_write(index, item) ==
  /\ Len(list_hist) < MaxStoreCalls
  /\ index < size(list)
  /\ list' = [list EXCEPT !.items[index] = item]
  /\ list_buf' = list_buf
  /\ list_hist' = Append(list_hist, [op |-> "write", arg |-> index])

\* The Pool that stands by while the stand-alone list is exercised.
PoolAtRest == Pool(2) /\ Fresh

InitStore ==
  \/ Init
  \/ /\ PoolAtRest
     /\ list \in InitialLists
     /\ list_buf = 1
     /\ list_hist = <<>>
     /\ BackendAtRest

\* Either the Pool is used (growing by insert or by a direct expand) or the
\* stand-alone list is; the two objects share nothing.
PoolTurn == StoreAtRest /\ Len(hist) < MaxStoreCalls

NextStore ==
  \/ \E item \in Values : PoolTurn /\ insert(item) /\ UNCHANGED beside_pool
  \/ \E i \in live : PoolTurn /\ Release(i) /\ UNCHANGED beside_pool
  \/ PoolTurn /\ clear /\ UNCHANGED beside_pool
  \/ \E amount \in ExpandAmounts : PoolTurn /\ Expand(amount) /\ UNCHANGED beside_pool
  \/ \E amt \in ListAmounts : PoolAtRest /\ list_expand(amt) /\ UNCHANGED beside_store
  \/ \E index \in 0..(size(list) - 1), item \in Values :
       PoolAtRest /\ list_write(index, item) /\ UNCHANGED beside_store

SpecStore == InitStore /\ [][NextStore]_vars

\* ------------------------------------------------- a Pool of 2^16 slots or more
LargeSizes == {UINT16_MAX + 1, UINT16_MAX + 2}

InitLarge ==
  /\ \E initial_size \in LargeSizes : Pool(initial_size)
  /\ Fresh
  /\ StoreAtRest
  /\ BackendAtRest

NextLarge ==
  \/ \E item \in Values :
       Len(hist) < MaxLargeCalls /\ insert(item) /\ UNCHANGED beside_pool
  \/ \E i \in DOMAIN issued :
       Len(hist) < MaxLargeCalls /\ Release(i) /\ UNCHANGED beside_pool
  \/ Len(hist) < MaxLargeCalls /\ clear /\ UNCHANGED beside_pool
  \/ \E handle \in GetHandles : get_ref(handle) /\ UNCHANGED beside_pool

SpecLarge == InitLarge /\ [][NextLarge]_vars

\* The slot the next insert writes to, and the handle it returns.
next_slot ==
  LET cur == [items |-> items, generation |-> generation, empty |-> empty]
      p == IF empty = <<>> THEN expand(cur, ExpandBatch) ELSE cur
  IN p.empty[Len(p.empty)]

next_handle ==
  LET cur == [items |-> items, generation |-> generation, empty |-> empty]
      p == IF empty = <<>> THEN expand(cur, ExpandBatch) ELSE cur
  IN Handle(ToU16(next_slot), p.generation[next_slot])

\* ------------------------------------------------- release of a foreign handle
\* The number of mutating calls in a run that releases handles the Pool never
\* issued.
MaxMisuseCalls == 3

\* Handles whose slot is outside a Pool of InitSizes slots: made up by the
\* caller, from another Pool, or default-constructed.
ForeignHandles == {Handle(7, 0), NullHandle}

\* Pool::release called with a handle this Pool did not issue.
ReleaseForeign(handle) ==
  /\ ~fault
  /\ Len(hist) < MaxCalls
  /\ release(handle)
  /\ hist' = Append(hist, Mut("release", DefaultItem, handle))
  /\ ret' = Call("release", DefaultItem, handle, Nullopt, FALSE)
  /\ UNCHANGED <<fault, issued, live, stale>>

MisuseTurn == Len(hist) < MaxMisuseCalls

NextMisuse ==
  \/ \E item \in Values : MisuseTurn /\ insert(item) /\ UNCHANGED beside_pool
  \/ \E i \in live : MisuseTurn /\ Release(i) /\ UNCHANGED beside_pool
  \/ \E handle \in ForeignHandles :
       MisuseTurn /\ ReleaseForeign(handle) /\ UNCHANGED beside_pool
  \/ MisuseTurn /\ clear /\ UNCHANGED beside_pool
  \/ \E handle \in GetHandles : get_ref(handle) /\ UNCHANGED beside_pool

SpecMisuse == Init /\ [][NextMisuse]_vars

\* ------------------------------------------------- get_ref from several threads
\* The number of mutating calls made between the gets of the threads.
MaxRaceCalls == 2

\* Thread t enters get_ref(handle): handle.valid() is evaluated on the
\* caller's handle; when it is false, && is done and nullopt is returned.
get_ref_call(t, handle) ==
  /\ ~fault
  /\ gets[t].pc \in {"idle", "done"}
  /\ gets' = [gets EXCEPT ![t] =
       IF valid(handle)
         THEN [pc |-> "read", handle |-> handle, g |-> 0, res |-> Nullopt]
         ELSE [pc |-> "done", handle |-> handle, g |-> 0, res |-> Nullopt]]

\* A read of generation[handle.slot] that also writes the value back
\* incremented.
get_ref_read_touch(t) ==
  /\ gets[t].pc = "read"
  /\ gets[t].handle.slot \in DOMAIN generation
  /\ gets' = [gets EXCEPT ![t].pc = "compare", ![t].g = generation[gets[t].handle.slot]]
  /\ generation' = [generation EXCEPT ![gets[t].handle.slot] = ToU16(@ + 1)]
  /\ UNCHANGED <<items, empty, fault, issued, live, stale, hist, ret>>

\* Thread t reads generation[handle.slot]; outside the vector the read is
\* undefined and gives the handle's generation or another value.
get_ref_read(t) ==
  /\ gets[t].pc = "read"
  /\ LET h == gets[t].handle
     IN \E g \in IF h.slot \in DOMAIN generation
                  THEN {generation[h.slot]}
                  ELSE {h.generation, ToU16(h.generation + 1)} :
          gets' = [gets EXCEPT ![t].pc = "compare", ![t].g = g]
  /\ UNCHANGED pool_vars

\* Thread t compares and returns &items[handle.slot] or nullopt.
get_ref_return(t) ==
  /\ gets[t].pc = "compare"
  /\ gets' = [gets EXCEPT ![t].pc = "done",
                          ![t].res = IF gets[t].g = gets[t].handle.generation
                                       THEN Some(gets[t].handle.slot) ELSE Nullopt]

\* No thread is inside get_ref: the condition under which a mutator may run.
NoGetInFlight == \A t \in Threads : gets[t].pc \in {"idle", "done"}

MutatorTurn == NoGetInFlight /\ Len(hist) < MaxRaceCalls

NextGets ==
  \/ \E item \in Values : MutatorTurn /\ insert(item) /\ UNCHANGED beside_pool
  \/ \E i \in live : MutatorTurn /\ Release(i) /\ UNCHANGED beside_pool
  \/ MutatorTurn /\ clear /\ UNCHANGED beside_pool
  \/ \E t \in Threads, handle \in GetHandles :
       get_ref_call(t, handle) /\ UNCHANGED beside_gets
  \/ \E t \in Threads : get_ref_read(t) /\ UNCHANGED <<store_vars, backend_vars, event_vars, comp_vars>>
  \/ \E t \in Threads : get_ref_return(t) /\ UNCHANGED beside_gets

SpecGets == Init /\ [][NextGets]_vars

\* ------------------------------------------------- the loader (loader.hpp)
\* The library resolve_api asks for, and the symbol the load macro looks up.
LibraryPath == "libmeshi-rs.so"
MESHI_PLUGIN_GET_API_SYMBOL == "meshi_plugin_get_api"

\* The values of MeshiPluginApi::abi_version a module can report.
AbiVersions == {1, 2}

\* The paths and symbol names a caller passes to the loader.
Paths == {nullptr, "", LibraryPath, "libmissing.so"}
SymbolNames == {nullptr, "", MESHI_PLUGIN_GET_API_SYMBOL, "meshi_missing"}

\* The platform: dlopen(path, RTLD_NOW | RTLD_LOCAL) and dlsym(handle, name).
dlopen(path) == IF path = LibraryPath /\ env.lib THEN ModuleHandle ELSE nullptr

dlsym(handle, name) ==
  IF handle = ModuleHandle /\ name = MESHI_PLUGIN_GET_API_SYMBOL /\ env.sym
    THEN EntryFn ELSE nullptr

\* loader_function that hands every path to the platform.
loader_function_nocheck(library_path) ==
  [handle |-> dlopen(library_path), platform |-> <<library_path>>]

\* loader_function(library_path): the handle it returns and the paths it
\* passed to the platform loader.
loader_function(library_path) ==
  IF library_path = nullptr \/ library_path = ""
    THEN [handle |-> nullptr, platform |-> <<>>]
    ELSE [handle |-> dlopen(library_path), platform |-> <<library_path>>]

\* get_plugin_symbol(plugin_handle, symbol_name)
get_plugin_symbol(plugin_handle, symbol_name) ==
  IF plugin_handle = nullptr \/ symbol_name = nullptr \/ symbol_name = ""
    THEN nullptr
    ELSE dlsym(plugin_handle, symbol_name)

\* unload_plugin(plugin_handle): the module's reference count after the call.
unload_plugin(plugin_handle) ==
  IF plugin_handle = nullptr THEN refs ELSE refs - 1

\* The module's exported entry function: it returns the address of the
\* module's one dispatch table, or null when the module has none to give.
meshi_plugin_get_api == env.table

\* One platform-loader call, as dlopens records it.
Dlopen(path, by) == [path |-> path, by |-> by]

Dlopens(platform, by) == [k \in DOMAIN platform |-> Dlopen(platform[k], by)]

\* One call through a function pointer: which function, the pointer called,
\* whether the module was loaded at the call, the abi_version of its table.
Invoke(fn, target, count) ==
  [fn |-> fn, target |-> target, loaded |-> count > 0, abi |-> env.abi,
   engine |-> NoEngine]

\* The same for a function that takes or returns an engine pointer.
InvokeOn(fn, target, count, engine) ==
  [Invoke(fn, target, count) EXCEPT !.engine = engine]

\* ------------------------------------------------- EngineBackend (backend.hpp)
\* resolve_api that opens the library on every call.
resolve_api_reload(d) ==
  LET r == loader_function(LibraryPath)
  IN [dl |-> [init |-> TRUE, handle |-> r.handle],
      platform |-> r.platform,
      entry |-> get_plugin_symbol(r.handle, MESHI_PLUGIN_GET_API_SYMBOL)]

\* resolve_api(), up to the call of the entry function: the static dl after
\* its initialisation (done by the first call only), the platform-loader
\* calls made, and the pointer MESHI_PLUGIN_LOAD_API calls.
resolve_api(d) ==
  LET r == IF d.init THEN [handle |-> d.handle, platform |-> <<>>]
                     ELSE loader_function(LibraryPath)
  IN [dl |-> [init |-> TRUE, handle |-> r.handle],
      platform |-> r.platform,
      entry |-> get_plugin_symbol(r.handle, MESHI_PLUGIN_GET_API_SYMBOL)]

\* The functions of the dispatch table that EngineBackend calls.
DispatchFns ==
  {"make_engine", "get_physics_system", "get_graphics_system", "destroy_engine",
   "register_event_callback", "update"}

MaxBackends == 2

\* The engine pointer the next make_engine returns: a fresh one per call.
NewEngine == 1 + Cardinality({k \in DOMAIN calls : calls[k].fn = "make_engine"})

\* What the constructor of EngineBackend does, as the set of its outcomes:
\* the static dl, the platform-loader calls, the module's reference count,
\* the calls made through the module's pointers, the object constructed (if
\* the constructor returns) and how the process stands.
EngineBackend_ctor(d) ==
  LET r == resolve_api(d)
      opened == Cardinality({k \in DOMAIN r.platform : r.dl.handle # nullptr})
      count == refs + opened
      api_ == meshi_plugin_get_api
      engine_ == NewEngine
      Outcome(how, made_calls, made) ==
        [dl |-> r.dl, platform |-> r.platform, refs |-> count,
         proc |-> how, calls |-> made_calls, made |-> made]
  IN IF r.entry = nullptr
       THEN \* the macro calls the null pointer: undefined. The process dies
            \* at the call, or the call comes back with a null table and
            \* assert (or the next line) ends it.
            {Outcome(how, <<Invoke(MESHI_PLUGIN_GET_API_SYMBOL, nullptr, count)>>, <<>>) :
               how \in {"segv", "abort"}}
     ELSE IF api_ = nullptr
       THEN \* assert(api_) aborts; a build with NDEBUG has no assert and goes
            \* on to api_->make_engine through the null table: undefined.
            {Outcome("abort", <<Invoke(MESHI_PLUGIN_GET_API_SYMBOL, r.entry, count)>>, <<>>),
             Outcome("segv", <<Invoke(MESHI_PLUGIN_GET_API_SYMBOL, r.entry, count),
                               Invoke("make_engine", nullptr, count)>>, <<>>)}
     ELSE {Outcome("running",
             <<Invoke(MESHI_PLUGIN_GET_API_SYMBOL, r.entry, count),
               InvokeOn("make_engine", api_, count, engine_),
               InvokeOn("get_physics_system", api_, count, engine_),
               InvokeOn("get_graphics_system", api_, count, engine_)>>,
             <<[api_ |-> api_, engine_ |-> engine_, dl |-> r.dl.handle, alive |-> TRUE]>>)}

\* EngineBackend::EngineBackend(info)
EngineBackend ==
  /\ proc = "running"
  /\ steps < MaxBackendCalls
  /\ Len(backends) < MaxBackends
  /\ \E o \in EngineBackend_ctor(dl) :
       /\ dl' = o.dl
       /\ dlopens' = dlopens \o Dlopens(o.platform, "resolve_api")
       /\ refs' = o.refs
       /\ proc' = o.proc
       /\ calls' = calls \o o.calls
       /\ backends' = backends \o o.made
  /\ steps' = steps + 1
  /\ UNCHANGED <<installed, env, held, lret>>

\* ~EngineBackend() that also unloads the module.
EngineBackend_dtor_unload(b) ==
  /\ proc = "running"
  /\ steps < MaxBackendCalls
  /\ backends[b].alive
  /\ calls' = Append(calls, InvokeOn("destroy_engine", backends[b].api_, refs, backends[b].engine_))
  /\ backends' = [backends EXCEPT ![b].alive = FALSE]
  /\ refs' = unload_plugin(dl.handle)
  /\ steps' = steps + 1
  /\ UNCHANGED <<installed, env, dl, held, dlopens, proc, lret>>

\* EngineBackend::~EngineBackend() of the b-th backend
EngineBackend_dtor(b) ==
  /\ proc = "running"
  /\ steps < MaxBackendCalls
  /\ backends[b].alive
  /\ calls' = Append(calls, InvokeOn("destroy_engine", backends[b].api_, refs, backends[b].engine_))
  /\ backends' = [backends EXCEPT ![b].alive = FALSE]
  /\ steps' = steps + 1
  /\ UNCHANGED <<installed, env, dl, refs, held, dlopens, proc, lret>>

\* EngineBackend::update() and register_event_callback() of the b-th backend
EngineBackend_call(b, fn) ==
  /\ proc = "running"
  /\ steps < MaxBackendCalls
  /\ backends[b].alive
  /\ calls' = Append(calls, InvokeOn(fn, backends[b].api_, refs, backends[b].engine_))
  /\ steps' = steps + 1
  /\ UNCHANGED <<installed, env, dl, refs, held, dlopens, backends, proc, lret>>

\* loader_function(path) called by the program itself.
Load(path) ==
  /\ proc = "running"
  /\ steps < MaxBackendCalls
  /\ LET r == loader_function(path)
     IN /\ lret' = [fn |-> "loader_function", arg |-> path, res |-> r.handle]
        /\ dlopens' = dlopens \o Dlopens(r.platform, "caller")
        /\ refs' = IF r.handle # nullptr THEN refs + 1 ELSE refs
        /\ held' = IF r.handle # nullptr THEN held + 1 ELSE held
  /\ steps' = steps + 1
  /\ UNCHANGED <<installed, env, dl, backends, calls, proc>>

\* get_plugin_symbol(handle, name) called by the program itself.
Lookup(handle, name) ==
  /\ proc = "running"
  /\ steps < MaxBackendCalls
  /\ handle = ModuleHandle => held > 0
  /\ lret' = [fn |-> "get_plugin_symbol", arg |-> <<handle, name>>,
              res |-> get_plugin_symbol(handle, name)]
  /\ steps' = steps + 1
  /\ UNCHANGED <<installed, env, dl, refs, held, dlopens, backends, calls, proc>>

\* unload_plugin(handle) called by the program itself, with null or with a
\* handle it got from loader_function and has not unloaded yet.
Unload(handle) ==
  /\ proc = "running"
  /\ steps < MaxBackendCalls
  /\ handle = ModuleHandle => held > 0
  /\ refs' = unload_plugin(handle)
  /\ held' = IF handle = nullptr THEN held ELSE held - 1
  /\ lret' = [fn |-> "unload_plugin", arg |-> handle, res |-> nullptr]
  /\ steps' = steps + 1
  /\ UNCHANGED <<installed, env, dl, dlopens, backends, calls, proc>>

\* Every deployment: the library present or not, with or without the entry
\* symbol, its table of either ABI version, the caller built for either.
InitBackend ==
  /\ Pool(2)
  /\ Fresh
  /\ StoreAtRest
  /\ env \in [lib : BOOLEAN, sym : BOOLEAN, table : {TablePtr, nullptr},
            abi : AbiVersions, expected : AbiVersions]
  /\ NotLoaded
  /\ gets = [t \in Threads |-> Idle]
  /\ EventsAtRest
  /\ ComponentsAtRest

NextBackend ==
  \/ EngineBackend /\ UNCHANGED beside_backend
  \/ \E b \in DOMAIN backends : EngineBackend_dtor(b) /\ UNCHANGED beside_backend
  \/ \E b \in DOMAIN backends, fn \in {"update", "register_event_callback"} :
       EngineBackend_call(b, fn) /\ UNCHANGED beside_backend
  \/ \E path \in Paths : Load(path) /\ UNCHANGED beside_backend
  \/ \E handle \in {nullptr, ModuleHandle}, name \in SymbolNames :
       Lookup(handle, name) /\ UNCHANGED beside_backend
  \/ \E handle \in {nullptr, ModuleHandle} :
       Unload(handle) /\ UNCHANGED beside_backend

SpecBackend == InitBackend /\ [][NextBackend]_vars

\* ------------------------------------------------- Engine (engine.hpp)
\* The Engine objects one initialize_meshi_engine makes: the temporary of
\* Engine::make, the one moved into the Result, the one moved into the
\* unique_ptr. EngineBackend has a destructor and no move constructor, so
\* each move of an Engine copies m_backend, engine pointer included.
EngineCopies == 3

\* ~EngineBackend() of a backend b, as the calls it makes.
Destroyed(b, count) ==
  IF b.api_ # nullptr /\ b.engine_ # NoEngine
    THEN <<InvokeOn("destroy_engine", b.api_, count, b.engine_)>>
    ELSE <<>>

\* initialize_meshi_engine(info): Engine::make constructs an Engine
\* (EngineBackend, then EventHandler, which registers its callback with the
\* engine), moves it into a Result and destroys the temporary; make_unique
\* moves it out of the Result; the assignment to the static unique_ptr
\* deletes the Engine installed before, if any; the Result is destroyed.
initialize_meshi_engine ==
  /\ proc = "running"
  /\ steps < MaxBackendCalls
  /\ Len(backends) < MaxBackends * EngineCopies
  /\ \E o \in EngineBackend_ctor(dl) :
       /\ dl' = o.dl
       /\ dlopens' = dlopens \o Dlopens(o.platform, "resolve_api")
       /\ refs' = o.refs
       /\ proc' = o.proc
       /\ IF o.made = <<>>
            THEN /\ calls' = calls \o o.calls
                 /\ UNCHANGED <<backends, installed>>
            ELSE LET m_backend == o.made[1]
                     gone == [m_backend EXCEPT !.alive = FALSE]
                     old == IF installed = 0 THEN <<>>
                            ELSE Destroyed(backends[installed], o.refs)
                     before == IF installed = 0 THEN backends
                               ELSE [backends EXCEPT ![installed].alive = FALSE]
                 IN /\ calls' = calls \o o.calls
                          \o <<InvokeOn("register_event_callback", m_backend.api_,
                                        o.refs, m_backend.engine_)>>
                          \o Destroyed(m_backend, o.refs)
                          \o old
                          \o Destroyed(m_backend, o.refs)
                    /\ backends' = before \o <<gone, gone, m_backend>>
                    /\ installed' = Len(backends) + EngineCopies
  /\ steps' = steps + 1
  /\ UNCHANGED <<env, held, lret>>

\* engine()->update(), on the Engine that initialize_meshi_engine installed.
Engine_update ==
  /\ proc = "running"
  /\ steps < MaxBackendCalls
  /\ installed # 0
  /\ calls' = Append(calls, InvokeOn("update", backends[installed].api_, refs,
                                     backends[installed].engine_))
  /\ steps' = steps + 1
  /\ UNCHANGED <<installed, env, dl, refs, held, dlopens, backends, proc, lret>>

\* The process ends: the static unique_ptr<Engine> is destroyed.
exit ==
  /\ proc = "running"
  /\ proc' = "exited"
  /\ IF installed = 0
       THEN UNCHANGED <<calls, backends>>
       ELSE /\ calls' = calls \o Destroyed(backends[installed], refs)
            /\ backends' = [backends EXCEPT ![installed].alive = FALSE]
  /\ UNCHANGED <<installed, env, dl, refs, held, dlopens, lret, steps>>

NextEngine ==
  \/ initialize_meshi_engine /\ UNCHANGED beside_backend
  \/ Engine_update /\ UNCHANGED beside_backend
  \/ exit /\ UNCHANGED beside_backend
  \/ \E path \in Paths : Load(path) /\ UNCHANGED beside_backend
  \/ \E handle \in {nullptr, ModuleHandle} : Unload(handle) /\ UNCHANGED beside_backend

SpecEngine == InitBackend /\ [][NextEngine]_vars

\* ------------------------------------------------- events (bits/event.hpp)
\* The events delivered: a key or a mouse button pressed or released, the
\* mouse moved.
Events ==
  {[type |-> t, source |-> "Key", code |-> k] :
     t \in {"Pressed", "Released"}, k \in Keys}
  \cup {[type |-> t, source |-> "MouseButton", code |-> b] :
     t \in {"Pressed", "Released"}, b \in Buttons}
  \cup {[type |-> "Motion2D", source |-> "Mouse", code |-> "none"],
        [type |-> "Pressed", source |-> "Gamepad", code |-> "none"]}

\* The EventFilter objects callers register with: one that passes every event
\* and one that passes presses only; Accepts is filter(event).
EventFilters == {"any", "pressed"}

Accepts(filter, event) ==
  \/ filter = "any"
  \/ filter = "pressed" /\ event.type = "Pressed"

\* EventHandler::register_callback
register_callback(cbs, filter, callback) ==
  Append(cbs, FilteredCallback(filter, callback))

\* std::function<void(const Event &)>::target<void(const Event &)>(): the
\* stored target is a closure object, never of a function type, so the type
\* test in target() fails and it returns a null pointer, whatever is stored.
target(callback) == nullptr

\* EventHandler::unregister_callback: erase(remove_if(...)) with the comparison
\* of the two target() pointers as the predicate.
unregister_callback(cbs, callback) ==
  SelectSeq(cbs, LAMBDA fc : ~(target(fc.callback) = target(callback)))

\* The loops of ~EventRegister: one unregister_callback per recorded callback.
RECURSIVE unregister_each(_, _)
unregister_each(cbs, recorded) ==
  IF recorded = <<>> THEN cbs
  ELSE unregister_each(unregister_callback(cbs, Head(recorded)), Tail(recorded))

\* The first loop of process_event: each callback whose filter passes the event
\* is called; the call is recorded with the pressed tables as they are then.
RECURSIVE run_callbacks(_, _, _, _)
run_callbacks(cbs, event, keys, buttons) ==
  IF cbs = <<>> THEN <<>>
  ELSE (IF Accepts(Head(cbs).filter, event)
        THEN <<[callback |-> Head(cbs).callback, event |-> event,
                keys |-> keys, buttons |-> buttons]>>
        ELSE <<>>)
       \o run_callbacks(Tail(cbs), event, keys, buttons)

\* pressed[code] = true on Pressed, = false on Released, untouched otherwise.
set_pressed(table, event) ==
  IF event.type = "Pressed" THEN [table EXCEPT ![event.code] = "true"]
  ELSE IF event.type = "Released" THEN [table EXCEPT ![event.code] = "false"]
  ELSE table

\* process_event that updates the pressed tables before it runs the callbacks.
process_event_update_first(cbs, keys, buttons, event) ==
  LET new_buttons == IF event.source = "MouseButton"
                     THEN set_pressed(buttons, event) ELSE buttons
      new_keys == IF event.source # "MouseButton" /\ event.source = "Key"
                  THEN set_pressed(keys, event) ELSE keys
  IN [seen |-> run_callbacks(cbs, event, new_keys, new_buttons),
      keys |-> new_keys,
      buttons |-> new_buttons]

\* EventHandler::process_event
process_event(cbs, keys, buttons, event) ==
  [seen |-> run_callbacks(cbs, event, keys, buttons),
   buttons |-> IF event.source = "MouseButton"
               THEN set_pressed(buttons, event) ELSE buttons,
   keys |-> IF event.source # "MouseButton" /\ event.source = "Key"
            THEN set_pressed(keys, event) ELSE keys]

\* ------------------------------------------------- actions (bits/action.hpp)
\* The ActionFilter objects callers register: the two static helpers of
\* ActionHandler, and a filter that accepts presses and writes another name
\* into the Action it is handed; ActionAccepts is what filter(event, action)
\* returns, Rewritten the Action it leaves behind.
ActionFilters == {"is_just_pressed", "is_just_released", "renames_on_press"}

ActionAccepts(filter, event) ==
  \/ filter = "is_just_pressed" /\ event.type = "Pressed"
  \/ filter = "is_just_released" /\ event.type = "Released"
  \/ filter = "renames_on_press" /\ event.type = "Pressed"

Rewritten(filter, event, action) ==
  IF filter = "renames_on_press" /\ event.type = "Pressed"
  THEN [action EXCEPT !.type = "renamed"]
  ELSE action

\* Action{action_type, event, event.timestamp}
Action(action_type, event) == [type |-> action_type, event |-> event]

FilteredActionCallback(action_type, callback) ==
  [action_type |-> action_type, callback |-> callback]

\* ActionHandler::register_action
register_action(filters, action_type, filter) ==
  [filters EXCEPT ![action_type] = filter]

\* ActionHandler::register_action_callback
register_action_callback(acbs, action_type, callback) ==
  Append(acbs, FilteredActionCallback(action_type, callback))

\* std::function<void(const Action &)>::target<void(const Action &)>(): null,
\* for the same reason as target above.
action_target(callback) == nullptr

\* ActionHandler::unregister_action_callback
unregister_action_callback(acbs, callback) ==
  SelectSeq(acbs, LAMBDA fac : ~(action_target(fac.callback) = action_target(callback)))

\* The loops of ~ActionRegister.
RECURSIVE unregister_each_action(_, _)
unregister_each_action(acbs, recorded) ==
  IF recorded = <<>> THEN acbs
  ELSE unregister_each_action(unregister_action_callback(acbs, Head(recorded)),
                              Tail(recorded))

\* The orders in which a range-for may visit the entries of action_filters_,
\* an unordered_map: every order of the action types that have an entry.
Registered(filters) == {a \in ActionTypes : filters[a] # "unset"}

Orders(S) == {o \in [1..Cardinality(S) -> S] : Range(o) = S}

\* The inner loop of ActionHandler::process_event for one action type.
\* Each call is recorded with the callback's registered type and the Action
\* the callback was handed.
RECURSIVE run_action_callbacks(_, _, _)
run_action_callbacks(acbs, action_type, action) ==
  IF acbs = <<>> THEN <<>>
  ELSE (IF action_type = Head(acbs).action_type
        THEN <<[callback |-> Head(acbs).callback,
                action_type |-> Head(acbs).action_type,
                event |-> action.event, type |-> action.type]>>
        ELSE <<>>)
       \o run_action_callbacks(Tail(acbs), action_type, action)

\* ActionHandler::process_event that picks the callbacks by the type field of
\* the Action after the filter has run.
RECURSIVE action_process_event_by_type(_, _, _, _)
action_process_event_by_type(filters, acbs, order, event) ==
  IF order = <<>> THEN <<>>
  ELSE LET filter == filters[Head(order)]
           action == Rewritten(filter, event, Action(Head(order), event))
       IN (IF ActionAccepts(filter, event)
           THEN run_action_callbacks(acbs, action.type, action)
           ELSE <<>>)
          \o action_process_event_by_type(filters, acbs, Tail(order), event)

\* ActionHandler::process_event, visiting action_filters_ in the given order.
RECURSIVE action_process_event(_, _, _, _)
action_process_event(filters, acbs, order, event) ==
  IF order = <<>> THEN <<>>
  ELSE LET filter == filters[Head(order)]
           action == Rewritten(filter, event, Action(Head(order), event))
       IN (IF ActionAccepts(filter, event)
           THEN run_action_callbacks(acbs, Head(order), action)
           ELSE <<>>)
          \o action_process_event(filters, acbs, Tail(order), event)

Last(op, callback, event) == [op |-> op, callback |-> callback, event |-> event]

\* A call that invokes no callback.
Quiet == seen' = <<>> /\ aseen' = <<>>

\* ------------------------------------------------- the calls on the EventHandler
\* handler.register_callback(filter, cb) with a new EventCallback object.
EventHandler_register_callback(filter) ==
  /\ next_callback <= MaxCallbacks
  /\ callbacks_' = register_callback(callbacks_, filter, next_callback)
  /\ next_callback' = next_callback + 1
  /\ ev_last' = Last("register_callback", next_callback, NoEvent)
  /\ Quiet
  /\ UNCHANGED <<pressed_keys_, pressed_buttons_, registries, action_state>>

\* handler.unregister_callback(cb) with a callback registered earlier.
EventHandler_unregister_callback(callback) ==
  /\ callback \in 1..(next_callback - 1)
  /\ callbacks_' = unregister_callback(callbacks_, callback)
  /\ ev_last' = Last("unregister_callback", callback, NoEvent)
  /\ Quiet
  /\ UNCHANGED <<pressed_keys_, pressed_buttons_, registries, next_callback,
                 action_state>>

\* handler.make_registry(ptr)
EventHandler_make_registry(r) ==
  /\ registries[r].state = "unmade"
  /\ registries' = [registries EXCEPT ![r].state = "alive"]
  /\ ev_last' = Last("make_registry", 0, NoEvent)
  /\ Quiet
  /\ UNCHANGED <<callbacks_, pressed_keys_, pressed_buttons_, next_callback,
                 action_state>>

\* EventRegister::register_event(filter, member function)
EventRegister_register_event(r, filter) ==
  /\ registries[r].state = "alive"
  /\ next_callback <= MaxCallbacks
  /\ callbacks_' = register_callback(callbacks_, filter, next_callback)
  /\ registries' = [registries EXCEPT ![r].registered_callbacks_ =
                      Append(@, next_callback)]
  /\ next_callback' = next_callback + 1
  /\ ev_last' = Last("register_event", next_callback, NoEvent)
  /\ Quiet
  /\ UNCHANGED <<pressed_keys_, pressed_buttons_, action_state>>

\* EventRegister::register_event(filter, EventCallback)
EventRegister_register_event_fn(r, filter) ==
  /\ registries[r].state = "alive"
  /\ next_callback <= MaxCallbacks
  /\ callbacks_' = register_callback(callbacks_, filter, next_callback)
  /\ registries' = [registries EXCEPT ![r].registered_function_callbacks_ =
                      Append(@, next_callback)]
  /\ next_callback' = next_callback + 1
  /\ ev_last' = Last("register_event", next_callback, NoEvent)
  /\ Quiet
  /\ UNCHANGED <<pressed_keys_, pressed_buttons_, action_state>>

\* EventRegister::~EventRegister
EventRegister_dtor(r) ==
  /\ registries[r].state = "alive"
  /\ callbacks_' =
       unregister_each(
         unregister_each(callbacks_, registries[r].registered_callbacks_),
         registries[r].registered_function_callbacks_)
  /\ registries' = [registries EXCEPT ![r].state = "destroyed"]
  /\ ev_last' = Last("~EventRegister", 0, NoEvent)
  /\ Quiet
  /\ UNCHANGED <<pressed_keys_, pressed_buttons_, next_callback, action_state>>

\* EventHandler::is_pressed(key) and is_pressed(button): there is an entry
\* and it is true.
is_pressed(table, code) == table[code] = "true"

\* is_released that also answers true where the table has no entry.
is_released_no_entry(table, code) == table[code] # "true"

\* EventHandler::is_released(key) and is_released(button): there is an entry
\* and it is false.
is_released(table, code) == table[code] = "false"

\* The engine delivers an event: EventHandler::process_event, and within it
\* ActionHandler::process_event if the ActionHandler's callback is called.
EventHandler_process_event(event) ==
  LET out == process_event(callbacks_, pressed_keys_, pressed_buttons_, event)
  IN /\ seen' = out.seen
     /\ pressed_keys_' = out.keys
     /\ pressed_buttons_' = out.buttons
     /\ \E order \in Orders(Registered(action_filters_)) :
          aseen' = IF \E k \in DOMAIN out.seen : out.seen[k].callback = ActionSubscription
                   THEN action_process_event(action_filters_, action_callbacks_,
                                             order, event)
                   ELSE <<>>
     /\ ev_last' = Last("process_event", 0, event)
     /\ UNCHANGED <<callbacks_, registries, next_callback, action_filters_,
                    action_callbacks_, action_registries, next_action>>

\* The events delivered while callbacks come and go: those of one key and of
\* one button, and a mouse motion.
OneKeyEvents ==
  {event \in Events : event.code \in {"W", "Left"} \/ event.source = "Mouse"}

\* The Engine's EventHandler and ActionHandler, just constructed.
InitEvents ==
  /\ PoolAtRest
  /\ StoreAtRest
  /\ BackendAtRest

NextEvents ==
  \/ \E filter \in EventFilters :
       EventHandler_register_callback(filter) /\ UNCHANGED beside_events
  \/ \E callback \in 1..MaxCallbacks :
       EventHandler_unregister_callback(callback) /\ UNCHANGED beside_events
  \/ \E r \in Registries : EventHandler_make_registry(r) /\ UNCHANGED beside_events
  \/ \E r \in Registries, filter \in EventFilters :
       EventRegister_register_event(r, filter) /\ UNCHANGED beside_events
  \/ \E r \in Registries, filter \in EventFilters :
       EventRegister_register_event_fn(r, filter) /\ UNCHANGED beside_events
  \/ \E r \in Registries : EventRegister_dtor(r) /\ UNCHANGED beside_events
  \/ \E event \in OneKeyEvents :
       EventHandler_process_event(event) /\ UNCHANGED beside_events

SpecEvents == InitEvents /\ [][NextEvents]_vars

\* ------------------------------------------------- the calls on the ActionHandler
\* handler.register_action(action_type, filter)
ActionHandler_register_action(action_type, filter) ==
  /\ action_filters_' = register_action(action_filters_, action_type, filter)
  /\ ev_last' = Last("register_action", 0, NoEvent)
  /\ Quiet
  /\ UNCHANGED <<event_state, action_callbacks_, action_registries, next_action>>

\* handler.register_action_callback(action_type, cb) with a new ActionCallback.
ActionHandler_register_action_callback(action_type) ==
  /\ next_action <= MaxActionCallbacks
  /\ action_callbacks_' =
       register_action_callback(action_callbacks_, action_type, next_action)
  /\ next_action' = next_action + 1
  /\ ev_last' = Last("register_action_callback", next_action, NoEvent)
  /\ Quiet
  /\ UNCHANGED <<event_state, action_filters_, action_registries>>

\* handler.unregister_action_callback(cb) with a callback registered earlier.
ActionHandler_unregister_action_callback(callback) ==
  /\ callback \in 1..(next_action - 1)
  /\ action_callbacks_' = unregister_action_callback(action_callbacks_, callback)
  /\ ev_last' = Last("unregister_action_callback", callback, NoEvent)
  /\ Quiet
  /\ UNCHANGED <<event_state, action_filters_, action_registries, next_action>>

\* handler.make_registry(ptr)
ActionHandler_make_registry(r) ==
  /\ action_registries[r].state = "unmade"
  /\ action_registries' = [action_registries EXCEPT ![r].state = "alive"]
  /\ ev_last' = Last("make_registry", 0, NoEvent)
  /\ Quiet
  /\ UNCHANGED <<event_state, action_filters_, action_callbacks_, next_action>>

\* ActionRegister::register_action(action_type, member function)
ActionRegister_register_action(r, action_type) ==
  /\ action_registries[r].state = "alive"
  /\ next_action <= MaxActionCallbacks
  /\ action_callbacks_' =
       register_action_callback(action_callbacks_, action_type, next_action)
  /\ action_registries' = [action_registries EXCEPT ![r].registered_callbacks_ =
                             Append(@, next_action)]
  /\ next_action' = next_action + 1
  /\ ev_last' = Last("ActionRegister::register_action", next_action, NoEvent)
  /\ Quiet
  /\ UNCHANGED <<event_state, action_filters_>>

\* ActionRegister::register_action(action_type, ActionCallback)
ActionRegister_register_action_fn(r, action_type) ==
  /\ action_registries[r].state = "alive"
  /\ next_action <= MaxActionCallbacks
  /\ action_callbacks_' =
       register_action_callback(action_callbacks_, action_type, next_action)
  /\ action_registries' =
       [action_registries EXCEPT ![r].registered_function_callbacks_ =
          Append(@, next_action)]
  /\ next_action' = next_action + 1
  /\ ev_last' = Last("ActionRegister::register_action", next_action, NoEvent)
  /\ Quiet
  /\ UNCHANGED <<event_state, action_filters_>>

\* ActionRegister::~ActionRegister
ActionRegister_dtor(r) ==
  /\ action_registries[r].state = "alive"
  /\ action_callbacks_' =
       unregister_each_action(
         unregister_each_action(action_callbacks_,
                                action_registries[r].registered_callbacks_),
         action_registries[r].registered_function_callbacks_)
  /\ action_registries' = [action_registries EXCEPT ![r].state = "destroyed"]
  /\ ev_last' = Last("~ActionRegister", 0, NoEvent)
  /\ Quiet
  /\ UNCHANGED <<event_state, action_filters_, next_action>>

\* The two static helpers of ActionHandler.
StaticFilters == {"is_just_pressed", "is_just_released"}

\* The events that the two action filters tell apart.
KeyEvents == {event \in OneKeyEvents : event.source = "Key"}

NextActions ==
  \/ \E action_type \in ActionTypes, filter \in StaticFilters :
       ActionHandler_register_action(action_type, filter) /\ UNCHANGED beside_events
  \/ \E action_type \in ActionTypes :
       ActionHandler_register_action_callback(action_type) /\ UNCHANGED beside_events
  \/ \E callback \in 1..MaxActionCallbacks :
       ActionHandler_unregister_action_callback(callback) /\ UNCHANGED beside_events
  \/ \E r \in Registries : ActionHandler_make_registry(r) /\ UNCHANGED beside_events
  \/ \E r \in Registries, action_type \in ActionTypes :
       ActionRegister_register_action(r, action_type) /\ UNCHANGED beside_events
  \/ \E r \in Registries, action_type \in ActionTypes :
       ActionRegister_register_action_fn(r, action_type) /\ UNCHANGED beside_events
  \/ \E r \in Registries : ActionRegister_dtor(r) /\ UNCHANGED beside_events
  \/ \E event \in KeyEvents : EventHandler_process_event(event) /\ UNCHANGED beside_events

SpecActions == InitEvents /\ [][NextActions]_vars

\* ------------------------------------------------- action dispatch
\* Filters and callbacks are registered directly on the ActionHandler, with
\* every filter, and key events are delivered.
NextDispatch ==
  \/ \E action_type \in ActionTypes, filter \in ActionFilters :
       ActionHandler_register_action(action_type, filter) /\ UNCHANGED beside_events
  \/ \E action_type \in ActionTypes :
       ActionHandler_register_action_callback(action_type) /\ UNCHANGED beside_events
  \/ \E event \in KeyEvents : EventHandler_process_event(event) /\ UNCHANGED beside_events

SpecDispatch == InitEvents /\ [][NextDispatch]_vars

\* ------------------------------------------------- the pressed tables
\* Events of every key and button are delivered, and the tables are queried;
\* no callback is registered besides the ActionHandler's.
\* What is_pressed and is_released answer for every key and button.
Answers ==
  [code \in Keys \cup Buttons |->
     LET table == IF code \in Keys THEN pressed_keys_ ELSE pressed_buttons_
     IN [is_pressed |-> is_pressed(table, code),
         is_released |-> is_released(table, code)]]

NextPressed ==
  \/ \E event \in Events : EventHandler_process_event(event) /\ UNCHANGED beside_events

SpecPressed == InitEvents /\ [][NextPressed]_vars

\* ------------------------------------------------- Object (bits/objects/base.hpp)
Hook(obj, hook) == [obj |-> obj, hook |-> hook]

\* Object::activate that runs on_activation on every call.
Object_activate_always(active, o) ==
  [active |-> [active EXCEPT ![o] = TRUE],
   hooks |-> <<Hook(o, "on_activation")>>]

\* Object::activate
Object_activate(active, o) ==
  [active |-> [active EXCEPT ![o] = TRUE],
   hooks |-> IF ~active[o] THEN <<Hook(o, "on_activation")>> ELSE <<>>]

\* Object::deactivate
Object_deactivate(active, o) ==
  [active |-> [active EXCEPT ![o] = FALSE],
   hooks |-> IF active[o] THEN <<Hook(o, "on_deactivation")>> ELSE <<>>]

\* ------------------------------------------------- Component (bits/components/base.hpp)
\* The components reached from the frontier through m_children lists.
RECURSIVE Below(_, _, _)
Below(kids, frontier, found) ==
  LET next == UNION {Range(kids[c]) : c \in frontier} \ found
  IN IF next = {} THEN found ELSE Below(kids, next, found \cup next)

Descendants(kids, c) == Below(kids, {c}, {})

\* A call that recurses through m_children from c never returns: some
\* component it reaches is its own descendant.
Endless(kids, c) ==
  \E d \in {c} \cup Descendants(kids, c) : d \in Descendants(kids, d)

\* Component::activate, deactivate and update: the component's own part, then
\* the same call on each child in the order of m_children. todo holds the
\* calls still to be made, the next one first.
RECURSIVE Component_walk(_, _, _, _, _)
Component_walk(call, kids, todo, active, ran) ==
  IF todo = <<>> THEN [active |-> active, hooks |-> ran]
  ELSE LET c == Head(todo)
           own == CASE call = "activate" -> Object_activate(active, c)
                    [] call = "deactivate" -> Object_deactivate(active, c)
                    [] OTHER -> [active |-> active, hooks |-> <<Hook(c, "update")>>]
       IN Component_walk(call, kids, kids[c] \o Tail(todo), own.active,
                         ran \o own.hooks)

\* A call of activate, deactivate or update on c; with a cycle in the
\* children lists the recursion exhausts the stack.
Component_call(call, c) ==
  /\ comp_proc = "running"
  /\ comp_last' = CompCall(call, c, Null)
  /\ IF Endless(m_children, c)
     THEN /\ comp_proc' = "stack overflow"
          /\ UNCHANGED <<m_active, hooks>>
     ELSE LET out == Component_walk(call, m_children, <<c>>, m_active, <<>>)
          IN /\ m_active' = out.active
             /\ hooks' = out.hooks
             /\ UNCHANGED comp_proc
  /\ UNCHANGED <<m_parent, m_children>>

Component_activate(c) == Component_call("activate", c)

Component_deactivate(c) == Component_call("deactivate", c)

Component_update(c) == Component_call("update", c)

TotalChildren ==
  Cardinality(UNION {{<<p, i>> : i \in DOMAIN m_children[p]} : p \in Components})

\* Component::attach_to; attach_to(nullptr) dereferences the null parent.
attach_to(c, parent) ==
  /\ comp_proc = "running"
  /\ TotalChildren < MaxAttach
  /\ m_parent' = [m_parent EXCEPT ![c] = parent]
  /\ IF parent = Null
     THEN /\ comp_proc' = "segv"
          /\ UNCHANGED m_children
     ELSE /\ m_children' = [m_children EXCEPT ![parent] = Append(@, c)]
          /\ UNCHANGED comp_proc
  /\ hooks' = <<>>
  /\ comp_last' = CompCall("attach_to", c, Null)
  /\ UNCHANGED m_active

\* The index of the first entry equal to c, 0 if there is none.
find(children, c) ==
  IF \E i \in DOMAIN children : children[i] = c
  THEN CHOOSE i \in DOMAIN children :
         children[i] = c /\ \A j \in 1..(i - 1) : children[j] # c
  ELSE 0

\* vector::erase(iter)
erase(children, i) == SubSeq(children, 1, i - 1) \o SubSeq(children, i + 1, Len(children))

\* What the find_if and erase of detach leave of the children lists. The range
\* searched runs from the parent's begin() to the END OF THE COMPONENT'S OWN
\* list: a valid range only if the component is its own parent. Otherwise the
\* behaviour is undefined: a build either comes upon the component while it
\* walks the parent's array and erases the entry, or stops at an iterator
\* that is not the parent's and hands it to erase, which faults. Only with
\* both lists empty are the two end iterators equal and nothing is erased.
detach_outcomes(c) ==
  LET p == m_parent[c]
      at == find(m_children[p], c)
      erased == [children |-> [m_children EXCEPT ![p] = erase(@, at)],
                 crashed |-> FALSE]
      untouched == [children |-> m_children, crashed |-> FALSE]
      faulted == [children |-> m_children, crashed |-> TRUE]
  IN IF p = c
     THEN {IF at # 0 THEN erased ELSE untouched}
     ELSE IF at # 0
     THEN {erased, faulted}
     ELSE IF m_children[p] = <<>> /\ m_children[c] = <<>>
     THEN {untouched}
     ELSE {faulted}

\* Component::detach: with a parent, the search and erase above, then
\* deactivate(); m_parent is left as it is.
detach(c) ==
  /\ comp_proc = "running"
  /\ comp_last' = CompCall("detach", c, Null)
  /\ IF m_parent[c] = Null
     THEN /\ hooks' = <<>>
          /\ UNCHANGED <<m_children, m_active, comp_proc>>
     ELSE \E o \in detach_outcomes(c) :
            IF o.crashed
            THEN /\ comp_proc' = "segv"
                 /\ hooks' = <<>>
                 /\ UNCHANGED <<m_children, m_active>>
            ELSE /\ m_children' = o.children
                 /\ IF Endless(o.children, c)
                    THEN /\ comp_proc' = "stack overflow"
                         /\ hooks' = <<>>
                         /\ UNCHANGED m_active
                    ELSE LET out == Component_walk("deactivate", o.children, <<c>>,
                                                   m_active, <<>>)
                         IN /\ m_active' = out.active
                            /\ hooks' = out.hooks
                            /\ UNCHANGED comp_proc
  /\ UNCHANGED m_parent

\* The loop of get_actor and get_root_component: up the m_parent pointers until
\* one is null. A chain of more links than there are components has a cycle,
\* and the loop never ends (Null here).
RECURSIVE climb(_, _, _)
climb(parents, ptr, links) ==
  IF parents[ptr] = Null THEN ptr
  ELSE IF links = 0 THEN Null
  ELSE climb(parents, parents[ptr], links - 1)

topmost(parents, c) == climb(parents, c, Cardinality(Components))

\* Component::get_actor
get_actor(c) ==
  /\ comp_proc = "running"
  /\ LET top == topmost(m_parent, c)
     IN IF top = Null
        THEN /\ comp_proc' = "hang"
             /\ comp_last' = CompCall("get_actor", c, Null)
        ELSE /\ comp_last' = CompCall("get_actor", c, m_actor(top))
             /\ UNCHANGED comp_proc
  /\ hooks' = <<>>
  /\ UNCHANGED <<m_parent, m_children, m_active>>

\* Component::get_root_component
get_root_component(c) ==
  /\ comp_proc = "running"
  /\ LET top == topmost(m_parent, c)
     IN IF top = Null
        THEN /\ comp_proc' = "hang"
             /\ comp_last' = CompCall("get_root_component", c, Null)
        ELSE /\ comp_last' = CompCall("get_root_component", c,
                                      IF m_actor(top) # NoActor THEN top ELSE Null)
             /\ UNCHANGED comp_proc
  /\ hooks' = <<>>
  /\ UNCHANGED <<m_parent, m_children, m_active>>

\* The scene's components, just constructed.
InitComponents ==
  /\ PoolAtRest
  /\ StoreAtRest
  /\ BackendAtRest

NextComponents ==
  \/ \E c \in Components, parent \in Components \cup {Null} :
       attach_to(c, parent) /\ UNCHANGED beside_components
  \/ \E c \in Components : detach(c) /\ UNCHANGED beside_components
  \/ \E c \in Components : Component_activate(c) /\ UNCHANGED beside_components
  \/ \E c \in Components : Component_deactivate(c) /\ UNCHANGED beside_components
  \/ \E c \in Components : Component_update(c) /\ UNCHANGED beside_components
  \/ \E c \in Components : get_actor(c) /\ UNCHANGED beside_components
  \/ \E c \in Components : get_root_component(c) /\ UNCHANGED beside_components

SpecComponents == InitComponents /\ [][NextComponents]_vars

\* Objects are activated and deactivated, alone and through a parent, and
\* detached, which deactivates. The Actor's root component is attached to
\* nothing.
NextActivation ==
  \/ \E c \in Components \ {1}, parent \in Components :
       attach_to(c, parent) /\ UNCHANGED beside_components
  \/ \E c \in Components : detach(c) /\ UNCHANGED beside_components
  \/ \E c \in Components : Component_activate(c) /\ UNCHANGED beside_components
  \/ \E c \in Components : Component_deactivate(c) /\ UNCHANGED beside_components

SpecActivation == InitComponents /\ [][NextActivation]_vars

\* ------------------------------------------------- vocabulary of the claims
\* get_ref(h) returns nullopt, whatever the build does.
GetFails(h) == get_ref_outcomes(generation, h) = {Nullopt}

\* get_ref(h) returns a pointer to a slot of the store that holds v.
GetReturns(h, v) ==
  \A r \in get_ref_outcomes(generation, h) :
    r.some /\ r.slot \in DOMAIN items.items /\ items.items[r.slot] = v

\* The step just taken was a call of insert, release, get_ref.
InsertStep == Len(issued') = Len(issued) + 1
ReleaseStep == Len(hist') = Len(hist) + 1 /\ hist'[Len(hist')].op = "release"
GetStep == ret'.op = "get_ref" /\ hist' = hist

\* The i-th insert is the most recent one into its slot.
MostRecent(i) == \A j \in DOMAIN issued : issued[j].slot = issued[i].slot => j <= i

\* No insert has happened since the last clear.
JustCleared ==
  \E k \in DOMAIN hist :
    hist[k].op = "clear" /\ \A j \in (k + 1)..Len(hist) : hist[j].op # "insert"

\* The calls made so far are the first n calls of the scenario
\* insert(1), insert(2), release({0,0}), insert(3).
Scenario ==
  <<Mut("insert", 1, NullHandle), Mut("insert", 2, NullHandle),
    Mut("release", DefaultItem, Handle(0, 0)), Mut("insert", 3, NullHandle)>>

SameCall(a, b) == a.op = b.op /\ a.item = b.item /\ (a.op = "release" => a.h = b.h)

Played(n) ==
  /\ Len(hist) = n
  /\ n <= Len(Scenario)
  /\ \A k \in 1..n : SameCall(hist[k], Scenario[k])
  /\ size(items) = 2

\* The platform-loader calls that resolve_api has made.
ResolveLoads == {k \in DOMAIN dlopens : dlopens[k].by = "resolve_api"}

\* The calls made so far through the dispatch table.
DispatchCalls == {k \in DOMAIN calls : calls[k].fn \in DispatchFns}

\* resolve_api has run and found no module, or a module without the entry symbol.
NoEntry == dl.init /\ (dl.handle = nullptr \/ ~env.sym)

\* The engine pointers make_engine has returned, and the calls made on one.
Engines == {calls[k].engine : k \in {j \in DOMAIN calls : calls[j].fn = "make_engine"}} \ {NoEngine}

CallsOn(engine, fn) == {k \in DOMAIN calls : calls[k].engine = engine /\ calls[k].fn = fn}

\* ----------------------------------------------------------------- claims

\* C1: over sequences of insert and release (no clear), get_ref with the handle
\* of the most recent insert into a slot succeeds while that slot has not been
\* released since, and get_ref with the handle of any insert whose slot has
\* been released since fails (nullopt).
C1_StaleHandleFails ==
  Count("clear") = 0 =>
    /\ \A i \in DOMAIN issued \ stale :
         MostRecent(i) => GetReturns(issued[i].h, issued[i].item)
    /\ \A i \in stale : GetFails(issued[i].h)

\* C2: on a Pool of capacity 2, insert(1) returns {0,0}; insert(2) returns
\* {1,0}; release({0,0}) leaves slot 0 free with generation[0] = 1; insert(3)
\* returns {0,1}; then get({0,0}) fails, get({0,1}) returns 3 and get({1,0})
\* returns 2.
C2_Scenario ==
  /\ Played(1) => hist[1].h = Handle(0, 0)
  /\ Played(2) => hist[2].h = Handle(1, 0)
  /\ Played(3) => generation[0] = 1 /\ 0 \in Range(empty)
  /\ Played(4) =>
       /\ hist[4].h = Handle(0, 1)
       /\ GetFails(Handle(0, 0))
       /\ GetReturns(Handle(0, 1), 3)
       /\ GetReturns(Handle(1, 0), 2)

\* C3: after clear and before the next insert, get_ref fails for every handle
\* that an insert returned before the clear, released or not.
C3_ClearInvalidates ==
  JustCleared => \A i \in DOMAIN issued : GetFails(issued[i].h)

\* C4: get_ref with the handle an insert just returned yields the inserted
\* value, and keeps yielding it across later inserts until the handle's slot
\* is released or the pool is cleared.
C4_RoundTrip ==
  /\ ret.op = "insert" /\ ~fault => GetReturns(ret.h, ret.item)
  /\ \A i \in live \ stale : GetReturns(issued[i].h, issued[i].item)

\* C5: an insert on an empty free stack grows the store by exactly one batch of
\* 1024 slots, an insert on a non-empty free stack does not grow it, and every
\* handle that get_ref resolved before the growth resolves to the same slot
\* holding the same value after it.
C5_GrowOnce ==
  [][InsertStep =>
       /\ empty = <<>> => size(items') = size(items) + ExpandBatch
       /\ empty # <<>> => size(items') = size(items)
       /\ empty = <<>> =>
            \A h \in GetHandles :
              \A r \in get_ref_outcomes(generation, h) :
                (r.some /\ r.slot < size(items)) =>
                  /\ get_ref_outcomes(generation', h) = {r}
                  /\ items'.items[r.slot] = items.items[r.slot]]_vars

\* C5 witness: the last call was an insert that grew the store (the free stack
\* holds the new batch less the slot just taken) while objects inserted before
\* it are live and still resolve.
C5_Witness ==
  /\ ret.op = "insert"
  /\ Cardinality(live) > 2
  /\ size(items) > ExpandBatch
  /\ Len(empty) = ExpandBatch - 1
  /\ \A i \in live : GetReturns(issued[i].h, issued[i].item)

\* C6: release(h) increases generation[h.slot] by exactly one modulo 2^16 and
\* changes no other generation, and neither insert nor release ever decreases
\* a generation.
C6_ReleaseBumpsGeneration ==
  [][/\ ReleaseStep =>
          generation' = [generation EXCEPT ![ret'.h.slot] = ToU16(@ + 1)]
     /\ (ReleaseStep \/ InsertStep) =>
          \A s \in DOMAIN generation : generation'[s] >= generation[s]]_vars

\* C7: get_ref(h) returns a pointer to slot h.slot iff h.slot < capacity and
\* generation[h.slot] = h.generation; otherwise it returns nullopt; it never
\* reads outside the generation array and never changes the Pool.
C7_GetChecked ==
  [][GetStep =>
       /\ UNCHANGED pool
       /\ ~ret'.oob
       /\ ret'.res.some <=>
            (ret'.h.slot < size(items) /\ generation[ret'.h.slot] = ret'.h.generation)
       /\ ret'.res.some => ret'.res.slot = ret'.h.slot]_vars

\* C8: a release of a slot that is already on the free stack leaves the free
\* stack and the generations unchanged, and no slot index occurs twice in the
\* free stack.
C8_DoubleReleaseRejected ==
  [][/\ (ReleaseStep /\ ret'.h.slot \in Range(empty)) =>
          UNCHANGED <<empty, generation>>
     /\ Cardinality(Range(empty')) = Len(empty')]_vars

\* C9: no index on the free stack is the slot of a live object, and insert
\* never returns a slot that another live object holds.
C9_FreeNotLive ==
  /\ \A i \in live : issued[i].slot \notin Range(empty)
  /\ \A i, j \in live : issued[i].slot = issued[j].slot => i = j

\* C10: when every handle is released at most once and never after a clear,
\* len(empty) + the number of live slots = capacity, and capacity is both the
\* store's size and the length of the generation array.
C10_Accounting ==
  /\ Len(empty) + Cardinality({issued[i].slot : i \in live}) = size(items)
  /\ DOMAIN items.items = 0..(size(items) - 1)
  /\ DOMAIN generation = 0..(size(items) - 1)

\* C10 witness: the store has grown, a handle has been released, a clear has
\* happened and an object is live.
C10_Witness ==
  /\ size(items) > ExpandBatch
  /\ Count("release") > 0
  /\ Count("clear") > 0
  /\ live # {}

\* The step just taken was a direct call of Pool::expand, a growth of the
\* Pool's store (by expand or inside insert), a call of ItemList::expand on
\* the stand-alone list.
ExpandStep == Len(hist') = Len(hist) + 1 /\ hist'[Len(hist')].op = "expand"
GrowStep == ExpandStep \/ size(items') # size(items)
ListExpandStep ==
  Len(list_hist') = Len(list_hist) + 1 /\ list_hist'[Len(list_hist')].op = "expand"

\* The amount a growth step of the Pool asked for.
Grown == IF ExpandStep THEN ret'.item ELSE ExpandBatch

\* C16: the sentinel handle (slot and generation both 65535, what a
\* default-constructed Handle holds) is never valid: valid() is false for it,
\* and in every reachable Pool state get_ref on it returns nullopt, reads
\* nothing outside the generation array and leaves the Pool unchanged.
C16_SentinelNeverValid ==
  [][/\ NullHandle = Handle(UINT16_MAX, UINT16_MAX)
     /\ ~valid(NullHandle)
     /\ GetFails(NullHandle)
     /\ ~get_ref_oob(generation, NullHandle)
     /\ (GetStep /\ ret'.h = NullHandle) =>
          (ret'.res = Nullopt /\ ~ret'.oob /\ UNCHANGED pool)]_vars

\* C16 witness: get_ref was called with the sentinel on a Pool that has grown
\* and holds a live object.
C16_Witness ==
  /\ ret.op = "get_ref"
  /\ ret.h = NullHandle
  /\ size(items) > ExpandBatch
  /\ live # {}

C19_WitnessList ==
  /\ ~list.imported
  /\ Len(list_hist) = MaxStoreCalls
  /\ list_hist[Len(list_hist)] = [op |-> "expand", arg |-> 2]
  /\ size(list) = 4
  /\ list.items[0] # DefaultItem
  /\ list.items[1] # DefaultItem

\* C20: ItemList::expand on an imported list does nothing, for every amount:
\* the capacity, the buffer the list points to and the content of every slot
\* are what they were. (expand returns void: there is no error to report.)
C20_ImportedGrowNoop ==
  [][(ListExpandStep /\ list.imported) =>
       /\ size(list') = size(list)
       /\ list_buf' = list_buf
       /\ list'.items = list.items
       /\ list'.imported]_vars

\* C20 witness: an imported list of two slots, both holding objects, has been
\* asked to expand by two.
C20_Witness ==
  /\ list.imported
  /\ size(list) = 2
  /\ list.items[0] # DefaultItem
  /\ list.items[1] # DefaultItem
  /\ list_hist # <<>>
  /\ list_hist[Len(list_hist)] = [op |-> "expand", arg |-> 2]

\* C17: a handle carries the whole slot index: the handle that insert returns
\* has slot equal to the index the item was written to, without truncation to
\* 16 bits, and is not taken for the sentinel, so get_ref on it returns the
\* inserted item; this for every index a Pool reaches by growing 1024 slots at
\* a time, 65535 and above included.
C17_FullSlotIndex ==
  /\ ~fault => (next_handle.slot = next_slot /\ valid(next_handle))
  /\ (ret.op = "insert" /\ ~fault) =>
       /\ ret.h.slot = ret.res.slot
       /\ valid(ret.h)
       /\ GetReturns(ret.h, ret.item)

\* C11: when the table of the module reports an abi_version other than the
\* one the caller was built for, resolution fails (no EngineBackend comes to
\* exist) and no function of the dispatch table is called.
C11_AbiMismatchRejected ==
  (env.table # nullptr /\ env.abi # env.expected) =>
    /\ backends = <<>>
    /\ DispatchCalls = {}

\* C12: looking up the entry symbol gives null when the module does not
\* export it or the module handle is null; resolution then returns a failure
\* to its caller (the process goes on), and neither the entry function
\* pointer nor any function of the dispatch table is called.
C12_SymbolNotFound ==
  /\ lret.fn = "get_plugin_symbol" =>
       ((lret.arg[1] = nullptr \/ ~env.sym) => lret.res = nullptr)
  /\ NoEntry =>
       /\ proc = "running"
       /\ \A k \in DOMAIN calls : calls[k].fn # MESHI_PLUGIN_GET_API_SYMBOL
       /\ DispatchCalls = {}

\* C13: loader_function returns a null handle when the platform cannot
\* resolve the path; for a null or empty path it returns null and the platform
\* loader is never called with such a path; resolve_api attempts the load at
\* most once per process: once its static is initialised, with a null handle
\* too, a further resolution makes no platform call and sees the same handle.
C13_LoadFailsOnce ==
  /\ \A k \in DOMAIN dlopens : dlopens[k].path \notin {nullptr, ""}
  /\ lret.fn = "loader_function" =>
       ((lret.arg \in {nullptr, ""} \/ dlopen(lret.arg) = nullptr) => lret.res = nullptr)
  /\ Cardinality(ResolveLoads) <= 1
  /\ dl.init => (resolve_api(dl).platform = <<>> /\ resolve_api(dl).dl = dl)
  /\ (dl.init /\ ~env.lib) => dl.handle = nullptr

\* C13 witness: the program asked for a library that is not there, then for
\* the empty path, and then resolve_api failed to load the module.
C13_Witness ==
  /\ ~env.lib
  /\ lret = [fn |-> "loader_function", arg |-> "", res |-> nullptr]
  /\ dl = [init |-> TRUE, handle |-> nullptr]
  /\ dlopens = <<Dlopen("libmissing.so", "caller"), Dlopen(LibraryPath, "resolve_api")>>

\* C14: no function of the module is called while the module is not loaded:
\* over every run of EngineBackend construction, use and destruction, once
\* resolve_api has loaded the module it stays loaded.
C14_NeverCalledUnloaded ==
  /\ \A k \in DOMAIN calls : calls[k].target # nullptr => calls[k].loaded
  /\ (dl.init /\ dl.handle # nullptr) => refs > 0
  /\ backends # <<>> => refs > 0

\* C14 witness: a backend was constructed and destroyed, a second one was
\* constructed and its update has just been called.
C14_Witness ==
  /\ Len(backends) = 2
  /\ ~backends[1].alive
  /\ backends[2].alive
  /\ calls[Len(calls)].fn = "update"

ClearStep == Len(hist') = Len(hist) + 1 /\ hist'[Len(hist')].op = "clear"

\* The last call made was op.
LastCall(op) == hist # <<>> /\ hist[Len(hist)].op = op

\* C21: insert changes no generation counter: it pops the top of the free
\* stack, writes the item into that slot and returns Handle{slot,
\* generation[slot]}; every generation counter is what it was (the array is
\* the same, but for the zeroes a growing insert appends), and every other
\* slot holds what it held.
C21_InsertKeepsGenerations ==
  [][InsertStep =>
       LET slot == ret'.res.slot
       IN /\ \A i \in DOMAIN generation : generation'[i] = generation[i]
          /\ size(items') = size(items) => generation' = generation
          /\ \A i \in DOMAIN generation' \ DOMAIN generation : generation'[i] = 0
          /\ ret'.h = Handle(slot, generation'[slot])
          /\ empty # <<>> =>
               (slot = empty[Len(empty)] /\ empty' = SubSeq(empty, 1, Len(empty) - 1))
          /\ items'.items[slot] = ret'.item
          /\ \A i \in DOMAIN items.items \ {slot} : items'.items[i] = items.items[i]]_vars

\* C21 witness: an insert has just reused a released slot of a Pool that has
\* grown and still holds another object.
C21_Witness ==
  /\ ret.op = "insert"
  /\ LastCall("insert")
  /\ Count("release") > 0
  /\ size(items) > ExpandBatch
  /\ Cardinality(live) > 1

\* C22: a Pool constructed with size n has every index 0..n-1 on the free
\* stack exactly once and every generation 0; clear, from any state, brings
\* back exactly that for the current capacity; a clear right after a clear
\* changes nothing.
C22_ClearRestoresFresh ==
  [][/\ hist = <<>> =>
          /\ empty = Iota(0, size(items))
          /\ generation = [i \in 0..(size(items) - 1) |-> 0]
     /\ ClearStep =>
          /\ size(items') = size(items)
          /\ empty' = Iota(0, size(items'))
          /\ Cardinality(Range(empty')) = Len(empty')
          /\ generation' = [i \in 0..(size(items') - 1) |-> 0]
     /\ (ClearStep /\ LastCall("clear")) => UNCHANGED pool]_vars

\* C22 witness: a clear has just followed a clear, on a Pool that has grown
\* and has handed out handles.
C22_Witness ==
  /\ Len(hist) >= 2
  /\ hist[Len(hist)].op = "clear"
  /\ hist[Len(hist) - 1].op = "clear"
  /\ size(items) > ExpandBatch
  /\ Len(issued) > 0

\* The number of inserts at the end of the calls made so far.
RECURSIVE TrailingInserts(_)
TrailingInserts(n) ==
  IF n = 0 \/ hist[n].op # "insert" THEN 0 ELSE 1 + TrailingInserts(n - 1)

\* The calls made so far are k inserts on a Pool just constructed or cleared.
FreshRun(k) ==
  /\ k = TrailingInserts(Len(hist))
  /\ Len(hist) = k \/ hist[Len(hist) - k].op = "clear"

\* The store has not grown during the last k calls: it is as constructed, or
\* it has grown by a batch that k inserts on the smaller store could not
\* have asked for.
NoGrowthIn(k) ==
  IF size(items) > ExpandBatch THEN k < size(items) - ExpandBatch ELSE TRUE

\* C27: the free list is a stack: insert takes the index pushed last, so an
\* insert right after release(h) reuses h.slot, and on a Pool of capacity n
\* just constructed or cleared the inserts take n-1, n-2, ..., 0 in that order.
C27_FreeListIsLifo ==
  [][InsertStep =>
       LET slot == ret'.res.slot
       IN /\ empty # <<>> => slot = empty[Len(empty)]
          /\ LastCall("release") => slot = hist[Len(hist)].h.slot
          /\ \A k \in 0..(size(items) - 1) :
               (FreshRun(k) /\ NoGrowthIn(k)) => slot = size(items) - 1 - k]_vars

\* C27 witness: an insert reused the slot just released, and after a clear
\* the next insert took the top slot of the Pool.
C27_Witness ==
  /\ Len(hist) = MaxCalls
  /\ [k \in 1..MaxCalls |-> hist[k].op] =
       <<"insert", "release", "insert", "clear", "insert">>
  /\ issued[2].slot = hist[2].h.slot
  /\ issued[3].slot = size(items) - 1

\* C23: releasing a handle whose slot is at or beyond the capacity does not
\* harm the Pool: the free stack still holds only indices below the capacity,
\* and no later insert writes outside the store.
C23_ForeignReleaseHarmless ==
  /\ \A k \in DOMAIN empty : empty[k] < size(items)
  /\ ~fault
  /\ \A i \in DOMAIN issued : issued[i].slot < size(items)

\* The step just taken was a step of thread t inside get_ref; it returned.
GetThreadStep(t) == gets'[t] # gets[t]
GetReturned(t) == gets'[t] # gets[t] /\ gets'[t].pc = "done"

\* C24: get_ref calls of several threads, with no mutator running meanwhile,
\* do not disturb each other: no step of a get_ref changes the free stack,
\* the generations or the slots, and each call returns what the same call
\* returns when it runs alone in the Pool state it returns in.
C24_ConcurrentGets ==
  [][\A t \in Threads :
       /\ GetThreadStep(t) => UNCHANGED pool
       /\ GetReturned(t) =>
            /\ gets'[t].res \in get_ref_outcomes(generation, gets'[t].handle)
            /\ gets'[t].res.some => gets'[t].res.slot = gets'[t].handle.slot]_vars

\* C24 witness: one thread has got a pointer to a live object while the
\* other thread is in the middle of a get_ref with the same handle.
C24_Witness ==
  /\ gets[1].pc = "done"
  /\ gets[1].res.some
  /\ gets[2].pc = "compare"
  /\ gets[2].handle = gets[1].handle
  /\ \E i \in live : issued[i].h = gets[1].handle

\* C25: each engine that make_engine returned during initialize_meshi_engine
\* is passed to destroy_engine exactly once over the life of the process, no
\* function of the dispatch table is called on it after that, and the Engine
\* that engine() returns holds an engine that has not been destroyed.
C25_DestroyedOnce ==
  \A e \in Engines :
    /\ Cardinality(CallsOn(e, "destroy_engine")) <= 1
    /\ proc = "exited" => Cardinality(CallsOn(e, "destroy_engine")) = 1
    /\ \A k \in CallsOn(e, "destroy_engine") :
         \A j \in DOMAIN calls : j > k => calls[j].engine # e
    /\ (installed # 0 /\ proc = "running" /\ backends[installed].engine_ = e) =>
         CallsOn(e, "destroy_engine") = {}

\* C26: the constructor of EngineBackend calls make_engine once, before any
\* other function of the dispatch table, and asks for the physics and the
\* graphics system of the engine make_engine returned; when resolution gave a
\* null table it calls no function of the dispatch table.
C26_ConstructorCalls ==
  /\ \A e \in Engines :
       /\ Cardinality(CallsOn(e, "make_engine")) = 1
       /\ \A k \in CallsOn(e, "make_engine") :
            /\ \A j \in DOMAIN calls : calls[j].engine = e => j >= k
            /\ k + 2 \in DOMAIN calls
            /\ calls[k + 1] = [calls[k] EXCEPT !.fn = "get_physics_system"]
            /\ calls[k + 2] = [calls[k] EXCEPT !.fn = "get_graphics_system"]
  /\ env.table = nullptr => DispatchCalls = {}


\* ------------------------------------------------- event and action callbacks
\* The callbacks a registry recorded: those registered through it.
RegisteredThrough(registry) ==
  Range(registry.registered_callbacks_)
    \cup Range(registry.registered_function_callbacks_)

\* A list of callbacks without the entries of the given callbacks.
Without(cbs, gone) == SelectSeq(cbs, LAMBDA fc : fc.callback \notin gone)

\* The step is handler.unregister_callback(callback).
UnregisterStep(callback) ==
  /\ ev_last' = Last("unregister_callback", callback, NoEvent)
  /\ UNCHANGED <<registries, next_callback>>

\* The step destroys the EventRegister r.
EventRegisterDies(r) ==
  registries[r].state = "alive" /\ registries'[r].state = "destroyed"

\* The step destroys the ActionRegister r.
ActionRegisterDies(r) ==
  action_registries[r].state = "alive" /\ action_registries'[r].state = "destroyed"

\* The step is process_event(event).
ProcessStep(event) == ev_last' = Last("process_event", 0, event)

\* How often the last call invoked the callback.
Invocations(log, callback) ==
  Cardinality({k \in DOMAIN log : log[k].callback = callback})

\* Where the callback stands in the list.
Position(cbs, callback) == CHOOSE i \in DOMAIN cbs : cbs[i].callback = callback

\* The entry of the pressed table that the event is about, after the event.
PressedAfter(before, event) ==
  IF event.type = "Pressed" THEN "true"
  ELSE IF event.type = "Released" THEN "false"
  ELSE before

\* C28: unregister_callback(cb) removes cb's entry from callbacks_ and no other,
\* so that process_event, which invokes the entries of callbacks_, no longer
\* invokes cb and still invokes every other callback; destroying an
\* EventRegister removes exactly the entries of the callbacks registered
\* through it, and leaves those of other registrants, the ActionHandler's
\* among them.
C28_UnregisterRemovesOnlyThat ==
  [][/\ \A callback \in 1..MaxCallbacks :
          UnregisterStep(callback) => callbacks_' = Without(callbacks_, {callback})
     /\ \A r \in Registries :
          EventRegisterDies(r) =>
            callbacks_' = Without(callbacks_, RegisteredThrough(registries[r]))]_vars

\* C29: destroying an ActionRegister removes from action_callbacks_ exactly the
\* entries of the callbacks registered through it; the action callbacks of
\* other registries and those registered directly on the ActionHandler stay,
\* and process_event goes on invoking them.
C29_ActionRegisterRemovesOnlyItsOwn ==
  [][\A r \in Registries :
       ActionRegisterDies(r) =>
         action_callbacks_' =
           Without(action_callbacks_, RegisteredThrough(action_registries[r]))]_vars

\* C30: process_event(e) invokes every registered callback whose filter accepts
\* e exactly once, in registration order, and no callback whose filter rejects
\* e; each callback observes the pressed tables as they were before e, and the
\* tables show e once process_event has returned.
C30_DispatchInRegistrationOrder ==
  [][\A event \in Events :
       ProcessStep(event) =>
         /\ \A i \in DOMAIN callbacks_ :
              Invocations(seen', callbacks_[i].callback) =
                IF Accepts(callbacks_[i].filter, event) THEN 1 ELSE 0
         /\ \A k \in DOMAIN seen' :
              \E i \in DOMAIN callbacks_ : callbacks_[i].callback = seen'[k].callback
         /\ \A j, k \in DOMAIN seen' :
              j < k => Position(callbacks_, seen'[j].callback)
                         < Position(callbacks_, seen'[k].callback)
         /\ \A k \in DOMAIN seen' :
              /\ seen'[k].event = event
              /\ seen'[k].keys = pressed_keys_
              /\ seen'[k].buttons = pressed_buttons_
         /\ event.source = "Key" =>
              /\ pressed_keys_'[event.code] = PressedAfter(pressed_keys_[event.code], event)
              /\ pressed_buttons_' = pressed_buttons_
         /\ event.source = "MouseButton" =>
              /\ pressed_buttons_'[event.code] =
                   PressedAfter(pressed_buttons_[event.code], event)
              /\ pressed_keys_' = pressed_keys_
         /\ event.source \notin {"Key", "MouseButton"} =>
              UNCHANGED <<pressed_keys_, pressed_buttons_>>]_vars

\* A release of W has been delivered to three callbacks: two were invoked, in
\* the order of their registration, and saw W still pressed; the third, which
\* passes presses only, was not invoked.
C30_Witness ==
  /\ ev_last = Last("process_event", 0, [type |-> "Released", source |-> "Key", code |-> "W"])
  /\ Len(callbacks_) = 3
  /\ Len(seen) = 2
  /\ seen[1].callback = callbacks_[1].callback
  /\ seen[2].callback \in {callbacks_[2].callback, callbacks_[3].callback}
  /\ \A k \in DOMAIN seen : seen[k].keys["W"] = "true"
  /\ pressed_keys_["W"] = "false"


\* ------------------------------------------------- pressed keys and buttons
\* The event is a press or a release of this key or of this mouse button.
About(event, code) ==
  /\ event.type \in {"Pressed", "Released"}
  /\ event.code = code
  /\ \/ event.source = "Key" /\ code \in Keys
     \/ event.source = "MouseButton" /\ code \in Buttons

\* C31: before any event is processed is_pressed and is_released are false for
\* every key and button; a processed press of k makes is_pressed(k) true and
\* is_released(k) false, a processed release the reverse, and every other
\* event leaves both answers for k as they were: so the answers always tell
\* the most recent press or release of k, and are never both true.
C31_PressedTellsLastEvent ==
  /\ \A code \in Keys \cup Buttons :
       ~Answers[code].is_pressed /\ ~Answers[code].is_released
  /\ [][\A event \in Events :
          ProcessStep(event) =>
            \A code \in Keys \cup Buttons :
              /\ About(event, code) =>
                   Answers'[code] = [is_pressed |-> event.type = "Pressed",
                                     is_released |-> event.type = "Released"]
              /\ ~About(event, code) => Answers'[code] = Answers[code]
              /\ ~(Answers'[code].is_pressed /\ Answers'[code].is_released)]_vars

\* W is pressed, S and the left button are released, the right button was
\* never touched, and the event just processed was a gamepad press, which
\* changed none of this.
C31_Witness ==
  /\ ev_last.op = "process_event"
  /\ ev_last.event.source = "Gamepad"
  /\ Answers["W"] = [is_pressed |-> TRUE, is_released |-> FALSE]
  /\ Answers["S"] = [is_pressed |-> FALSE, is_released |-> TRUE]
  /\ Answers["Left"] = [is_pressed |-> FALSE, is_released |-> TRUE]
  /\ Answers["Right"] = [is_pressed |-> FALSE, is_released |-> FALSE]


\* ------------------------------------------------- dispatch of actions
\* The ActionHandler's callback is registered with the EventHandler.
Subscribed == \E i \in DOMAIN callbacks_ : callbacks_[i].callback = ActionSubscription

CompStep(op, c) == comp_last'.op = op /\ comp_last'.c = c /\ comp_proc = "running"

\* How often c stands in the children list of p.
Occurrences(c, p) == Cardinality({i \in DOMAIN m_children[p] : m_children[p][i] = c})

\* How often the last call ran the hook on the object.
Ran(log, o, hook) == Cardinality({k \in DOMAIN log : log[k] = Hook(o, hook)})

\* C33: detach() on a component with a parent returns with the component out
\* of the former parent's children list, deactivated and without a parent;
\* on a component with no parent it changes nothing. (Stated for a component
\* that is not its own parent.)
C33_DetachLeavesParent ==
  [][\A c \in Components :
       (CompStep("detach", c) /\ m_parent[c] # c) =>
         IF m_parent[c] = Null
         THEN UNCHANGED <<m_parent, m_children, m_active, comp_proc>>
         ELSE /\ comp_proc' = "running"
              /\ Occurrences(c, m_parent[c])' = 0
              /\ ~m_active'[c]
              /\ m_parent'[c] = Null]_vars

\* C34: the tree is consistent: c stands in the children list of p exactly if
\* c's parent is p, and c stands at most once in all children lists together,
\* whenever the calls made so far have returned.
C34_TreeConsistent ==
  \A c \in Components :
    comp_proc = "running" =>
    /\ \A p \in Components : Occurrences(c, p) > 0 <=> m_parent[c] = p
    /\ Cardinality({<<p, i>> \in Components \X (1..MaxAttach + 1) :
                      i \in DOMAIN m_children[p] /\ m_children[p][i] = c}) <= 1

\* C35: get_actor and get_root_component return, whatever attach_to calls came
\* before: get_actor the actor of the topmost ancestor, get_root_component that
\* ancestor if it has an actor and null otherwise.
C35_LookupsTerminate ==
  comp_last.op \in {"get_actor", "get_root_component"} =>
    /\ comp_proc = "running"
    /\ LET top == topmost(m_parent, comp_last.c)
       IN /\ top # Null
          /\ m_parent[top] = Null
          /\ comp_last.op = "get_actor" => comp_last.res = m_actor(top)
          /\ comp_last.op = "get_root_component" =>
               comp_last.res = IF m_actor(top) # NoActor THEN top ELSE Null

\* C36: objects start inactive; a call runs on_activation on an object once if
\* the call takes it from inactive to active and never otherwise, and
\* on_deactivation once if it takes it from active to inactive and never
\* otherwise; after activate() the object is active, after deactivate() it is
\* not, and no other call than activate, deactivate and the deactivate inside
\* detach changes whether an object is active.
C36_HooksOnTransitions ==
  /\ \A o \in Components : ~m_active[o]
  /\ [][comp_proc' = "running" =>
          /\ \A o \in Components :
               /\ Ran(hooks', o, "on_activation") =
                    IF ~m_active[o] /\ m_active'[o] THEN 1 ELSE 0
               /\ Ran(hooks', o, "on_deactivation") =
                    IF m_active[o] /\ ~m_active'[o] THEN 1 ELSE 0
               /\ CompStep("activate", o) => m_active'[o]
               /\ CompStep("deactivate", o) => ~m_active'[o]
          /\ comp_last'.op \notin {"activate", "deactivate", "detach"} =>
               UNCHANGED m_active]_vars

\* activate() has just returned on an active object with an active child: it
\* ran no hook.
C36_Witness ==
  /\ comp_last.op = "activate"
  /\ comp_proc = "running"
  /\ m_children[comp_last.c] # <<>>
  /\ \A o \in {comp_last.c} \cup Range(m_children[comp_last.c]) : m_active[o]
  /\ hooks = <<>>

====
